---- MODULE Spec2Model ----
(***************************************************************************)
(* Conversational operational governance pipeline of CampusIQ              *)
(* (backend/app/services/conversational_ops_service.py): intent            *)
(* extraction, permission gate, field validation, risk classification,     *)
(* transactional execution with before/after snapshots, compensating       *)
(* rollback and the append-only audit log.                                 *)
(*                                                                         *)
(* Every public call runs in its own store session: the session is         *)
(* committed when the call returns and rolled back when an exception       *)
(* leaves it.  The variable db is the committed store; open holds the      *)
(* requests that are in flight, each with the store as its session read it.*)
(***************************************************************************)
EXTENDS Integers, Sequences, FiniteSets, TLC

VARIABLES db, uuid, hist, last, open

vars == <<db, uuid, hist, last, open>>

(***************************************************************************)
(* Bounds of the model.                                                    *)
(***************************************************************************)
MaxCalls == 3

(***************************************************************************)
(* Python values.  Every value is a record [t, v]: t is the Python type    *)
(* and v an index into that type's (small) value set.                      *)
(***************************************************************************)
None == [t |-> "none", v |-> 0]

I(n) == [t |-> "int", v |-> n]

S(n) == [t |-> "str", v |-> n]

D(n) == [t |-> "date", v |-> n]

B(n) == [t |-> "bool", v |-> n]

\* floats are carried in tenths: F(80) is 8.0
F(n) == [t |-> "float", v |-> n]

\* float('nan'), which json.loads yields for the token NaN
NaN == [t |-> "nan", v |-> 0]

\* str(n) for an int n is the numeric string S(NumericBase + n); the strings
\* S(k) with k < NumericBase are not numeric, those from IsoBase on are ISO dates.
NumericBase == 100

IsoBase == 200

\* date.isoformat(): the ISO text of date n is the string S(IsoBase + n).
isoformat(val) == S(IsoBase + val.v)

EmptyDict == [k \in {} |-> None]

\* dict.get(key) with default None
Get(dict, key) == IF key \in DOMAIN dict THEN dict[key] ELSE None

\* Python truthiness of a value
Truthy(val) ==
    CASE val.t = "none" -> FALSE
      [] val.t = "int" -> val.v # 0
      [] val.t = "bool" -> val.v # 0
      [] val.t = "str" -> val.v # 0
      [] OTHER -> TRUE

\* dict without a key
Without(dict, key) == [k \in DOMAIN dict \ {key} |-> dict[k]]

(***************************************************************************)
(* Schema: the registry entities the model carries, their columns and      *)
(* constraints.                                                            *)
(***************************************************************************)
ENTITY_REGISTRY == {"student", "faculty", "course", "attendance"}

\* column -> column type, per model
Columns(entity) ==
    CASE entity = "student" ->
            [id |-> "int", user_id |-> "int", roll_number |-> "str",
             department_id |-> "int", semester |-> "int", cgpa |-> "float"]
      [] entity = "faculty" ->
            [id |-> "int", user_id |-> "int", employee_id |-> "str",
             department_id |-> "int"]
      [] entity = "course" ->
            [id |-> "int", code |-> "str", department_id |-> "int",
             semester |-> "int", credits |-> "int", instructor_id |-> "int"]
      [] entity = "attendance" ->
            [id |-> "int", student_id |-> "int", course_id |-> "int",
             date |-> "date", is_present |-> "bool"]

\* ENTITY_REGISTRY[entity]["fields"], as far as they are columns of the model
RegistryFields(entity) ==
    CASE entity = "student" -> {"roll_number", "semester", "cgpa"}
      [] entity = "faculty" -> {"employee_id", "department_id"}
      [] entity = "course" -> {"code", "semester", "credits", "department_id"}
      [] entity = "attendance" -> {"date", "is_present", "student_id", "course_id"}

\* nullable=False columns
NotNull(entity) ==
    CASE entity = "student" -> {"user_id", "roll_number", "department_id", "semester"}
      [] entity = "faculty" -> {"user_id", "employee_id", "department_id"}
      [] entity = "course" -> {"code", "department_id", "semester"}
      [] entity = "attendance" -> {"student_id", "course_id", "date"}

\* unique=True columns
Unique(entity) ==
    CASE entity = "student" -> {"user_id", "roll_number"}
      [] entity = "faculty" -> {"user_id", "employee_id"}
      [] entity = "course" -> {"code"}
      [] entity = "attendance" -> {}

\* Column(default=...) values applied at INSERT to columns left unset
ColumnDefault(entity, col) ==
    CASE entity = "course" /\ col = "credits" -> I(3)
      [] entity = "student" /\ col = "cgpa" -> F(0)
      [] entity = "attendance" /\ col = "is_present" -> B(0)
      [] OTHER -> None

\* ForeignKey columns among the modelled tables: <<child, column, parent>>
ForeignKeys ==
    {<<"attendance", "student_id", "student">>,
     <<"attendance", "course_id", "course">>,
     <<"course", "instructor_id", "faculty">>}

\* The departments table (constant in this model): id -> name
Departments == (1 :> S(1)) @@ (2 :> S(2))

\* The users of the model: id -> role.
Users == {[id |-> 1, role |-> "admin"], [id |-> 2, role |-> "faculty"],
          [id |-> 3, role |-> "student"]}

(***************************************************************************)
(* The store.  rows[entity] maps the ids present in the table to the row   *)
(* (column -> value, id included); seq[entity] is the table's id sequence. *)
(***************************************************************************)
InitRows ==
    [e \in ENTITY_REGISTRY |->
        CASE e = "student" ->
                (1 :> [id |-> I(1), user_id |-> I(3), roll_number |-> S(1),
                       department_id |-> I(1), semester |-> I(3), cgpa |-> F(80)])
          [] e = "faculty" ->
                (1 :> [id |-> I(1), user_id |-> I(2), employee_id |-> S(1),
                       department_id |-> I(1)])
          [] e = "course" ->
                (1 :> [id |-> I(1), code |-> S(1), department_id |-> I(1),
                       semester |-> I(2), credits |-> I(3),
                       instructor_id |-> I(1)])
                @@
                (2 :> [id |-> I(2), code |-> S(2), department_id |-> I(2),
                       semester |-> I(2), credits |-> I(3),
                       instructor_id |-> None])
          [] e = "attendance" ->
                (1 :> [id |-> I(1), student_id |-> I(1), course_id |-> I(2),
                       date |-> D(1), is_present |-> B(1)])]

InitStore ==
    [rows |-> InitRows,
     seq |-> [e \in ENTITY_REGISTRY |-> IF e = "course" THEN 3 ELSE 2],
     plans |-> EmptyDict,
     execs |-> EmptyDict,
     audit |-> <<>>]

(***************************************************************************)
(* Helpers of the service.                                                 *)
(***************************************************************************)
\* a faulty snapshot that leaves the primary key out (include_id=False)
ModelToDictNoId(entity, row) ==
    [c \in DOMAIN Columns(entity) \ {"id"} |->
        IF row[c].t = "date" THEN isoformat(row[c]) ELSE row[c]]

\* _model_to_dict: every column of the row, date/datetime values as ISO text
_model_to_dict(entity, row) ==
    [c \in DOMAIN Columns(entity) |->
        IF row[c].t = "date" THEN isoformat(row[c]) ELSE row[c]]

\* the keys of ENTITY_REGISTRY; the model carries the tables of the four
\* entities in ENTITY_REGISTRY above
REGISTRY_KEYS ==
    {"student", "faculty", "course", "department", "attendance", "prediction",
     "student_fee", "invoice", "payment", "employee", "salary_record"}

\* ENTITY_ALIASES.get(name, name)
ENTITY_ALIASES(name) ==
    CASE name = "students" -> "student"
      [] name \in {"facultys", "teachers", "teacher", "professor", "professors", "staff"} -> "faculty"
      [] name = "courses" -> "course"
      [] name = "departments" -> "department"
      [] name = "attendances" -> "attendance"
      [] name = "predictions" -> "prediction"
      [] name \in {"fees", "fee"} -> "student_fee"
      [] name \in {"salary", "salaries"} -> "salary_record"
      [] name = "employees" -> "employee"
      [] name = "invoices" -> "invoice"
      [] name = "payments" -> "payment"
      [] OTHER -> name

\* the names _normalize_entity is called with on its own: every registry key
\* and two other names, in the singular and with a plural s, each with its
\* str.upper() and str.title() spelling
AliasNames ==
    {[key |-> "student", plural |-> FALSE, lower |-> "student", upper |-> "STUDENT", title |-> "Student"],
     [key |-> "student", plural |-> TRUE, lower |-> "students", upper |-> "STUDENTS", title |-> "Students"],
     [key |-> "faculty", plural |-> FALSE, lower |-> "faculty", upper |-> "FACULTY", title |-> "Faculty"],
     [key |-> "faculty", plural |-> TRUE, lower |-> "facultys", upper |-> "FACULTYS", title |-> "Facultys"],
     [key |-> "course", plural |-> FALSE, lower |-> "course", upper |-> "COURSE", title |-> "Course"],
     [key |-> "course", plural |-> TRUE, lower |-> "courses", upper |-> "COURSES", title |-> "Courses"],
     [key |-> "department", plural |-> FALSE, lower |-> "department", upper |-> "DEPARTMENT", title |-> "Department"],
     [key |-> "department", plural |-> TRUE, lower |-> "departments", upper |-> "DEPARTMENTS", title |-> "Departments"],
     [key |-> "attendance", plural |-> FALSE, lower |-> "attendance", upper |-> "ATTENDANCE", title |-> "Attendance"],
     [key |-> "attendance", plural |-> TRUE, lower |-> "attendances", upper |-> "ATTENDANCES", title |-> "Attendances"],
     [key |-> "prediction", plural |-> FALSE, lower |-> "prediction", upper |-> "PREDICTION", title |-> "Prediction"],
     [key |-> "prediction", plural |-> TRUE, lower |-> "predictions", upper |-> "PREDICTIONS", title |-> "Predictions"],
     [key |-> "student_fee", plural |-> FALSE, lower |-> "student_fee", upper |-> "STUDENT_FEE", title |-> "Student_Fee"],
     [key |-> "student_fee", plural |-> TRUE, lower |-> "student_fees", upper |-> "STUDENT_FEES", title |-> "Student_Fees"],
     [key |-> "invoice", plural |-> FALSE, lower |-> "invoice", upper |-> "INVOICE", title |-> "Invoice"],
     [key |-> "invoice", plural |-> TRUE, lower |-> "invoices", upper |-> "INVOICES", title |-> "Invoices"],
     [key |-> "payment", plural |-> FALSE, lower |-> "payment", upper |-> "PAYMENT", title |-> "Payment"],
     [key |-> "payment", plural |-> TRUE, lower |-> "payments", upper |-> "PAYMENTS", title |-> "Payments"],
     [key |-> "employee", plural |-> FALSE, lower |-> "employee", upper |-> "EMPLOYEE", title |-> "Employee"],
     [key |-> "employee", plural |-> TRUE, lower |-> "employees", upper |-> "EMPLOYEES", title |-> "Employees"],
     [key |-> "salary_record", plural |-> FALSE, lower |-> "salary_record", upper |-> "SALARY_RECORD", title |-> "Salary_Record"],
     [key |-> "salary_record", plural |-> TRUE, lower |-> "salary_records", upper |-> "SALARY_RECORDS", title |-> "Salary_Records"],
     [key |-> "grade", plural |-> FALSE, lower |-> "grade", upper |-> "GRADE", title |-> "Grade"],
     [key |-> "grade", plural |-> TRUE, lower |-> "grades", upper |-> "GRADES", title |-> "Grades"],
     [key |-> "room", plural |-> FALSE, lower |-> "room", upper |-> "ROOM", title |-> "Room"],
     [key |-> "room", plural |-> TRUE, lower |-> "rooms", upper |-> "ROOMS", title |-> "Rooms"]}

\* _normalize_entity: lower(), alias lookup, then default "student"
_normalize_entity(raw) ==
    LET lower == IF \E n \in AliasNames : raw \in {n.upper, n.title}
                 THEN (CHOOSE n \in AliasNames : raw \in {n.upper, n.title}).lower
                 ELSE raw
        entity == ENTITY_ALIASES(lower)
    IN IF entity \in REGISTRY_KEYS THEN entity ELSE "student"

\* int(value): does the conversion succeed, and its result
IntOk(val) ==
    \/ val.t \in {"int", "bool"}
    \/ val.t = "str" /\ val.v >= NumericBase /\ val.v < IsoBase

IntOf(val) == IF val.t = "str" THEN I(val.v - NumericBase) ELSE I(val.v)

(***************************************************************************)
(* Query filters (_apply_filters).                                         *)
(***************************************************************************)
\* key.rsplit("__", 1) with the operator check, on the filter keys of the model
ParseKey(key) ==
    CASE key = "credits__gt" -> [field |-> "credits", op |-> "gt"]
      [] key = "credits__lte" -> [field |-> "credits", op |-> "lte"]
      [] key = "semester__eq" -> [field |-> "semester", op |-> "eq"]
      [] key = "semester__ne" -> [field |-> "semester", op |-> "ne"]
      [] OTHER -> [field |-> key, op |-> "none"]

\* relationship() attributes of the model classes
Relationships(entity) ==
    CASE entity = "student" -> {"user", "department", "attendances", "predictions"}
      [] entity = "faculty" -> {"user", "department", "courses"}
      [] entity = "course" -> {"department", "instructor", "attendances"}
      [] entity = "attendance" -> {"student", "course"}

\* hasattr(model, name)
HasAttr(entity, name) ==
    name \in DOMAIN Columns(entity) \/ name \in Relationships(entity)

\* lower(Department.name) LIKE %pattern%: the ids of the matching departments.
\* S(1) and S(2) are the two names, S(3) is a fragment both names contain,
\* S(4) a text no name contains.
DeptLike(pattern) ==
    CASE pattern = S(1) -> {1}
      [] pattern = S(2) -> {2}
      [] pattern = S(3) -> {1, 2}
      [] OTHER -> {}

\* the WHERE clause one filter key adds: field <op> value
Compare(op, key, field, value) ==
    CASE op = "lt" -> field.t = value.t /\ field.v < value.v
      [] op = "lte" -> field.t = value.t /\ field.v <= value.v
      [] op = "gt" -> field.t = value.t /\ field.v > value.v
      [] op = "gte" -> field.t = value.t /\ field.v >= value.v
      [] op = "eq" -> field = value
      [] op = "ne" -> field.t = value.t /\ field # value
      [] OTHER -> IF key = "id" THEN field = IntOf(value) ELSE field = value

\* building the statement raises: int() of a non-integer id, or a comparison
\* of a relationship attribute with a plain value
FilterRaises(entity, filters) ==
    \E key \in DOMAIN filters :
        LET p == ParseKey(key)
        IN /\ HasAttr(entity, p.field)
           /\ \/ p.field \in Relationships(entity)
              \/ p.op = "none" /\ key = "id" /\ ~IntOk(filters[key])

\* does a row of the entity satisfy one filter key
KeyHolds(rows, entity, row, key, value) ==
    LET p == ParseKey(key)
    IN IF ~HasAttr(entity, p.field)
       THEN IF p.field = "semester" /\ entity = "attendance"
            THEN \E sid \in DOMAIN rows["student"] :
                    /\ rows["student"][sid].id = row.student_id
                    /\ Compare(p.op, "semester", rows["student"][sid].semester, value)
            ELSE IF p.field = "department" /\ entity \in {"student", "faculty", "course"}
            THEN row.department_id.v \in DeptLike(value)
            ELSE TRUE
       ELSE Compare(p.op, key, row[p.field], value)

\* a faulty statement: the filters are joined with OR
ApplyAnyFilter(rows, entity, filters) ==
    {id \in DOMAIN rows[entity] :
        \/ DOMAIN filters = {}
        \/ \E key \in DOMAIN filters :
              KeyHolds(rows, entity, rows[entity][id], key, filters[key])}

\* ids of the rows the filtered statement selects
_apply_filters(rows, entity, filters) ==
    {id \in DOMAIN rows[entity] :
        \A key \in DOMAIN filters :
            KeyHolds(rows, entity, rows[entity][id], key, filters[key])}

\* _estimate_impact: SELECT count(*) with the filters
_estimate_impact(rows, entity, filters) ==
    Cardinality(_apply_filters(rows, entity, filters))

(***************************************************************************)
(* Field validation (_validate_field_values).                              *)
(***************************************************************************)
\* FIELD_RULES: type, min and max of a field; NoRule for a field without rule
NoRule == [type |-> "none", min |-> 0, max |-> 0, hasMin |-> FALSE, hasMax |-> FALSE]

FIELD_RULES(key) ==
    CASE key = "semester" ->
            [type |-> "int", min |-> 1, max |-> 8, hasMin |-> TRUE, hasMax |-> TRUE]
      [] key = "cgpa" ->
            [type |-> "float", min |-> 0, max |-> 100, hasMin |-> TRUE, hasMax |-> TRUE]
      [] key = "credits" ->
            [type |-> "int", min |-> 1, max |-> 6, hasMin |-> TRUE, hasMax |-> TRUE]
      [] key \in {"department_id", "student_id", "course_id"} ->
            [type |-> "int", min |-> 1, max |-> 0, hasMin |-> TRUE, hasMax |-> FALSE]
      [] key = "is_present" ->
            [type |-> "bool", min |-> 0, max |-> 0, hasMin |-> FALSE, hasMax |-> FALSE]
      [] OTHER -> NoRule

\* rule["type"](val) succeeds
CoerceOk(type, val) ==
    CASE type = "int" -> IntOk(val)
      [] type = "float" -> val.t \in {"int", "bool", "float", "nan"}
                           \/ (val.t = "str" /\ val.v >= NumericBase /\ val.v < IsoBase)
      [] OTHER -> TRUE

\* rule["type"](val)
Coerce(type, val) ==
    CASE type = "int" -> IntOf(val)
      [] type = "float" ->
            IF val.t \in {"float", "nan"} THEN val
            ELSE IF val.t = "str" THEN F(10 * (val.v - NumericBase))
            ELSE F(10 * val.v)
      [] type = "bool" -> B(IF Truthy(val) THEN 1 ELSE 0)
      [] OTHER -> val

\* coerced < bound and coerced > bound: both are False for nan
Below(coerced, bound) == coerced.t # "nan" /\ coerced.v < bound

Above(coerced, bound) == coerced.t # "nan" /\ coerced.v > bound

\* the error of one key, "" when the value is accepted
FieldError(key, val) ==
    LET rule == FIELD_RULES(key)
    IN IF rule = NoRule THEN ""
       ELSE IF ~CoerceOk(rule.type, val) THEN "expected type"
       ELSE IF rule.hasMin /\ Below(Coerce(rule.type, val), rule.min) THEN "must be >= min"
       ELSE IF rule.hasMax /\ Above(Coerce(rule.type, val), rule.max) THEN "must be <= max"
       ELSE ""

\* (clean_values, errors)
_validate_field_values(values) ==
    LET good == {k \in DOMAIN values : FieldError(k, values[k]) = ""}
    IN [clean |-> [k \in good |->
                     IF FIELD_RULES(k) = NoRule THEN values[k]
                     ELSE Coerce(FIELD_RULES(k).type, values[k])],
        errors |-> {<<k, FieldError(k, values[k])>> : k \in DOMAIN values \ good}]

(***************************************************************************)
(* Authorization (_permission_gate).                                       *)
(***************************************************************************)
ROLE_MATRIX(role, intent) ==
    CASE role = "student" ->
            (CASE intent = "READ" -> {"student", "course", "department", "attendance", "prediction"}
               [] intent = "ANALYZE" -> {"attendance", "prediction"}
               [] intent = "UPDATE" -> {"student"}
               [] OTHER -> {})
      [] role = "faculty" ->
            (CASE intent = "READ" -> {"student", "course", "department", "attendance", "prediction"}
               [] intent = "ANALYZE" -> {"student", "course", "attendance", "prediction"}
               [] intent = "CREATE" -> {"attendance", "prediction"}
               [] intent = "UPDATE" -> {"student", "attendance", "course", "prediction"}
               [] intent = "DELETE" -> {"attendance"}
               [] OTHER -> {})
      [] OTHER -> ENTITY_REGISTRY

_is_allowed(role, intent, entity) == entity \in ROLE_MATRIX(role, intent)

\* _user_department_scope: the caller's home department, 0 for None
_user_department_scope(rows, user) ==
    IF user.role = "student"
    THEN LET own == {id \in DOMAIN rows["student"] :
                        rows["student"][id].user_id = I(user.id)}
         IN IF own = {} THEN 0
            ELSE rows["student"][CHOOSE id \in own : TRUE].department_id.v
    ELSE IF user.role = "faculty"
    THEN LET own == {id \in DOMAIN rows["faculty"] :
                        rows["faculty"][id].user_id = I(user.id)}
         IN IF own = {} THEN 0
            ELSE rows["faculty"][CHOOSE id \in own : TRUE].department_id.v
    ELSE 0

\* a faulty resolution: the filters never name a department
ResolveNone(filters) == [raised |-> FALSE, dept |-> 0]

\* _resolve_department_filter: the department the filters name (0 for None);
\* scalar_one_or_none raises when the name matches several departments
_resolve_department_filter(filters) ==
    IF "department_id" \in DOMAIN filters
    THEN [raised |-> FALSE,
          dept |-> IF IntOk(filters["department_id"])
                   THEN IntOf(filters["department_id"]).v ELSE 0]
    ELSE LET dep_name == Get(filters, "department")
         IN IF ~Truthy(dep_name) THEN [raised |-> FALSE, dept |-> 0]
            ELSE LET found == DeptLike(dep_name)
                 IN IF Cardinality(found) > 1 THEN [raised |-> TRUE, dept |-> 0]
                    ELSE IF found = {} THEN [raised |-> FALSE, dept |-> 0]
                    ELSE [raised |-> FALSE, dept |-> CHOOSE d \in found : TRUE]

\* a faulty gate: the role matrix and the department scope only, without the
\* blanket denial of student writes
GateWithoutBlanket(rows, user, intent, entity, filters) ==
    IF ~_is_allowed(user.role, intent, entity)
    THEN [raised |-> FALSE, allowed |-> FALSE, reason |-> "ROLE_RESTRICTED"]
    ELSE IF _resolve_department_filter(filters).raised
    THEN [raised |-> TRUE, allowed |-> FALSE, reason |-> "MultipleResultsFound"]
    ELSE IF /\ user.role \in {"student", "faculty"}
            /\ _resolve_department_filter(filters).dept # 0
            /\ _user_department_scope(rows, user) # 0
            /\ _resolve_department_filter(filters).dept # _user_department_scope(rows, user)
    THEN [raised |-> FALSE, allowed |-> FALSE, reason |-> "DEPARTMENT_SCOPE_RESTRICTED"]
    ELSE [raised |-> FALSE, allowed |-> TRUE, reason |-> "OK"]

_permission_gate(rows, user, intent, entity, filters) ==
    IF ~_is_allowed(user.role, intent, entity)
    THEN [raised |-> FALSE, allowed |-> FALSE, reason |-> "ROLE_RESTRICTED"]
    ELSE LET user_dept == _user_department_scope(rows, user)
             target == _resolve_department_filter(filters)
         IN IF target.raised
            THEN [raised |-> TRUE, allowed |-> FALSE, reason |-> "MultipleResultsFound"]
            ELSE IF /\ user.role \in {"student", "faculty"}
                    /\ target.dept # 0 /\ user_dept # 0
                    /\ target.dept # user_dept
            THEN [raised |-> FALSE, allowed |-> FALSE, reason |-> "DEPARTMENT_SCOPE_RESTRICTED"]
            ELSE IF user.role = "student" /\ intent \in {"UPDATE", "DELETE", "CREATE"}
            THEN [raised |-> FALSE, allowed |-> FALSE, reason |-> "STUDENT_WRITE_RESTRICTED"]
            ELSE [raised |-> FALSE, allowed |-> TRUE, reason |-> "OK"]

(***************************************************************************)
(* Risk (audit only).                                                      *)
(***************************************************************************)
RISK_HIGH_IMPACT_COUNT == 50

\* a faulty classifier: an impact equal to the threshold counts as bulk
ClassifyAtThreshold(intent, entity, impact_count, fields) ==
    IF intent \in {"READ", "ANALYZE"} THEN "LOW"
    ELSE IF intent = "DELETE" THEN "HIGH"
    ELSE IF entity = "user" /\ intent \in {"UPDATE", "CREATE"} THEN "HIGH"
    ELSE IF impact_count >= RISK_HIGH_IMPACT_COUNT THEN "HIGH"
    ELSE IF intent \in {"UPDATE", "CREATE"} THEN "MEDIUM"
    ELSE "LOW"

\* the affected fields are a parameter that the classifier never reads
_classify_risk(intent, entity, impact_count, fields) ==
    IF intent \in {"READ", "ANALYZE"} THEN "LOW"
    ELSE IF intent = "DELETE" THEN "HIGH"
    ELSE IF entity = "user" /\ intent \in {"UPDATE", "CREATE"} THEN "HIGH"
    ELSE IF impact_count > RISK_HIGH_IMPACT_COUNT THEN "HIGH"
    ELSE IF intent \in {"UPDATE", "CREATE"} THEN "MEDIUM"
    ELSE "LOW"

(***************************************************************************)
(* Intent extraction.  Confidence is carried in hundredths (78 is 0.78).   *)
(* A message is the record of what the keyword parser can find in it:      *)
(* tokens (the intent keyword classes present), ents (the entity words     *)
(* present), sem (the number after "semester", 0 when absent), dept (the   *)
(* text after "department", None when absent) and cgpaTo (the number of    *)
(* "cgpa to <n>" in tenths, 0 when absent).                                *)
(***************************************************************************)
ALLOWED_INTENTS == {"READ", "CREATE", "UPDATE", "DELETE", "ANALYZE"}

OPS_CONFIDENCE_THRESHOLD == 75

\* settings.GEMINI_MAX_RETRIES: the number of HTTP attempts of one oracle call
GEMINI_MAX_RETRIES == 2

Min(a, b) == IF a < b THEN a ELSE b

Max(a, b) == IF a > b THEN a ELSE b

\* a faulty parser that takes no confidence off for missing values
KeywordIntentValuesOptional(msg) ==
    LET intent == IF "create" \in msg.tokens THEN "CREATE"
                  ELSE IF "update" \in msg.tokens THEN "UPDATE"
                  ELSE IF "delete" \in msg.tokens THEN "DELETE"
                  ELSE IF "analyze" \in msg.tokens THEN "ANALYZE"
                  ELSE "READ"
        entity == IF "student" \in msg.ents THEN "student"
                  ELSE IF "faculty" \in msg.ents THEN "faculty"
                  ELSE IF "course" \in msg.ents THEN "course"
                  ELSE IF "attendance" \in msg.ents THEN "attendance"
                  ELSE "student"
        fdept == IF msg.dept # None THEN [department |-> msg.dept] ELSE EmptyDict
        fsem == IF msg.sem # 0 THEN [semester |-> I(msg.sem)] ELSE EmptyDict
        fcgpa == IF msg.cgpaTo # 0 /\ intent = "READ"
                 THEN [cgpa |-> F(msg.cgpaTo)] ELSE EmptyDict
        filters == fdept @@ fsem @@ fcgpa
        values == IF msg.cgpaTo # 0 /\ intent # "READ"
                  THEN [cgpa |-> F(msg.cgpaTo)] ELSE EmptyDict
        noScope == intent \in {"UPDATE", "DELETE"} /\ DOMAIN filters = {}
        noValues == intent \in {"CREATE", "UPDATE"} /\ DOMAIN values = {}
        c1 == 78 - (IF noScope THEN 20 ELSE 0)
        c2 == IF DOMAIN filters # {} THEN Min(95, c1 + 5) ELSE c1
    IN [intent |-> intent, entity |-> entity, filters |-> filters,
        values |-> values, confidence |-> Max(10, Min(99, c2)),
        ambiguous |-> (noScope \/ noValues)]

\* _keyword_intent on a message given by the tokens it contains
_keyword_intent(msg) ==
    LET intent == IF "create" \in msg.tokens THEN "CREATE"
                  ELSE IF "update" \in msg.tokens THEN "UPDATE"
                  ELSE IF "delete" \in msg.tokens THEN "DELETE"
                  ELSE IF "analyze" \in msg.tokens THEN "ANALYZE"
                  ELSE "READ"
        entity == IF "student" \in msg.ents THEN "student"
                  ELSE IF "faculty" \in msg.ents THEN "faculty"
                  ELSE IF "course" \in msg.ents THEN "course"
                  ELSE IF "attendance" \in msg.ents THEN "attendance"
                  ELSE "student"
        fdept == IF msg.dept # None THEN [department |-> msg.dept] ELSE EmptyDict
        fsem == IF msg.sem # 0 THEN [semester |-> I(msg.sem)] ELSE EmptyDict
        fcgpa == IF msg.cgpaTo # 0 /\ intent = "READ"
                 THEN [cgpa |-> F(msg.cgpaTo)] ELSE EmptyDict
        filters == fdept @@ fsem @@ fcgpa
        values == IF msg.cgpaTo # 0 /\ intent # "READ"
                  THEN [cgpa |-> F(msg.cgpaTo)] ELSE EmptyDict
        noScope == intent \in {"UPDATE", "DELETE"} /\ DOMAIN filters = {}
        noValues == intent \in {"CREATE", "UPDATE"} /\ DOMAIN values = {}
        c1 == 78 - (IF noScope THEN 20 ELSE 0) - (IF noValues THEN 20 ELSE 0)
        c2 == IF DOMAIN filters # {} THEN Min(95, c1 + 5) ELSE c1
    IN [intent |-> intent, entity |-> entity, filters |-> filters,
        values |-> values, confidence |-> Max(10, Min(99, c2)),
        ambiguous |-> (noScope \/ noValues)]

\* GeminiClient._call from loop index attempt on.  responses[i] is what the
\* i-th HTTP attempt meets: "rate_limited" (429), "http_error" (another
\* status >= 400), "api_error" (an error object in the body), "network" (the
\* post or the decoding of the body raises), "empty" (no text) or "text".
\* The value tells whether a text came back and how many attempts were made.
RECURSIVE _call(_, _)
_call(responses, attempt) ==
    IF attempt >= GEMINI_MAX_RETRIES THEN [ok |-> FALSE, attempts |-> attempt]
    ELSE CASE responses[attempt + 1] = "text" ->
                 [ok |-> TRUE, attempts |-> attempt + 1]
           [] responses[attempt + 1] = "rate_limited" ->
                 _call(responses, attempt + 1)
           [] responses[attempt + 1] = "network" /\ attempt < GEMINI_MAX_RETRIES - 1 ->
                 _call(responses, attempt + 1)
           [] OTHER -> [ok |-> FALSE, attempts |-> attempt + 1]

\* GeminiClient.ask_json: the text of the oracle parsed.  text.form is
\* "garbage" (no JSON and no braces: ValueError), "null" (JSON null or {}),
\* "array" (a JSON value that is no object), "object" or "prose" (an object
\* inside fences or prose, found by _clean_json or _extract_json); text.answer
\* is the object.
ask_json(responses, text) ==
    IF ~_call(responses, 0).ok \/ text.form = "garbage" THEN [kind |-> "error"]
    ELSE IF text.form = "null" THEN [kind |-> "falsy"]
    ELSE IF text.form = "array" THEN [kind |-> "nonobject"]
    ELSE text.answer

\* _extract_intent.  The oracle answer is one of
\*   [kind |-> "error"]      ask_json raised GeminiError or ValueError
\*   [kind |-> "falsy"]      the JSON value is empty ({}, [], 0, null)
\*   [kind |-> "nonobject"]  a non-empty JSON value that is no object
\*   [kind |-> "dict", intent, entity, filters, values, conf, ambiguous]
\* with conf = [t |-> "absent" | "none" | "str" | "num", v |-> hundredths].
_extract_intent(oracle, msg) ==
    CASE oracle.kind = "nonobject" ->
            [raised |-> TRUE, payload |-> _keyword_intent(msg)]
      [] oracle.kind = "dict" /\ oracle.conf.t = "none" ->
            [raised |-> TRUE, payload |-> _keyword_intent(msg)]
      [] oracle.kind = "dict" /\ oracle.conf.t \in {"absent", "num"} ->
            [raised |-> FALSE,
             payload |->
                [intent |-> IF oracle.intent \in ALLOWED_INTENTS
                            THEN oracle.intent ELSE "READ",
                 entity |-> _normalize_entity(oracle.entity),
                 filters |-> oracle.filters,
                 values |-> oracle.values,
                 confidence |-> Max(65, Min(99, IF oracle.conf.t = "absent"
                                                THEN 60 ELSE oracle.conf.v)),
                 ambiguous |-> oracle.ambiguous]]
      [] OTHER ->
            [raised |-> FALSE, payload |-> _keyword_intent(msg)]

(***************************************************************************)
(* The store's statements.  A statement that violates a column type, a     *)
(* NOT NULL, UNIQUE, PRIMARY KEY or FOREIGN KEY constraint raises.         *)
(***************************************************************************)
\* the ids of a set in ascending order (the unit of work flushes by primary key)
SortedIds(ids) ==
    [i \in 1..Cardinality(ids) |->
        CHOOSE x \in ids : Cardinality({y \in ids : y < x}) = i - 1]

TypeOk(colType, val) ==
    val.t = "none" \/ val.t = colType \/ (colType = "float" /\ val.t \in {"int", "nan"})

\* the row satisfies the constraints of its table, other being the rest of the table
RowOk(rows, entity, other, row) ==
    /\ \A c \in DOMAIN Columns(entity) : TypeOk(Columns(entity)[c], row[c])
    /\ \A c \in NotNull(entity) : row[c] # None
    /\ \A c \in Unique(entity) :
          row[c] # None => \A id \in DOMAIN other : other[id][c] # row[c]
    /\ \A fk \in ForeignKeys :
          (fk[1] = entity /\ row[fk[2]] # None) =>
              \E pid \in DOMAIN rows[fk[3]] : rows[fk[3]][pid].id = row[fk[2]]

\* the delete of a parent row first sets the foreign key of its child rows
\* to NULL, which a nullable=False column rejects
Referenced(rows, entity, id) ==
    \E fk \in ForeignKeys :
        /\ fk[3] = entity /\ fk[2] \in NotNull(fk[1])
        /\ \E cid \in DOMAIN rows[fk[1]] : rows[fk[1]][cid][fk[2]] = I(id)

\* the tables after the delete of a parent row: the row is gone and the
\* nullable foreign keys that referenced it are NULL
Nullified(rows, entity, id) ==
    [e \in DOMAIN rows |->
        [k \in DOMAIN rows[e] \ (IF e = entity THEN {id} ELSE {}) |->
            [c \in DOMAIN rows[e][k] |->
                IF <<e, c, entity>> \in ForeignKeys /\ rows[e][k][c] = I(id)
                THEN None ELSE rows[e][k][c]]]]

\* INSERT of one row with a given id
InsertRow(rows, entity, id, row) ==
    IF id \notin DOMAIN rows[entity] /\ RowOk(rows, entity, rows[entity], row)
    THEN [ok |-> TRUE, rows |-> [rows EXCEPT ![entity] = @ @@ (id :> row)]]
    ELSE [ok |-> FALSE, rows |-> rows]

\* model(**fields): the constructor rejects a keyword that is no attribute
\* and leaves the other columns unset
Construct(entity, fields) ==
    [c \in DOMAIN Columns(entity) |-> Get(fields, c)]

\* the row as the flush writes it: column defaults and the generated id filled in
WithDefaults(entity, obj, id) ==
    [c \in DOMAIN Columns(entity) |->
        IF c = "id" THEN I(id)
        ELSE IF obj[c] = None THEN ColumnDefault(entity, c) ELSE obj[c]]

\* setattr(row, key, value) for every key of values the row has
SetAttrs(entity, row, values) ==
    [c \in DOMAIN row |->
        IF c \in DOMAIN values /\ HasAttr(entity, c) THEN values[c] ELSE row[c]]

\* the flush of changed rows, one UPDATE per row in id order; stops at the
\* first statement that raises and leaves the earlier ones applied
RECURSIVE FlushUpdates(_, _, _, _)
FlushUpdates(rows, entity, ids, newRow) ==
    IF ids = <<>> THEN [ok |-> TRUE, rows |-> rows]
    ELSE LET id == Head(ids)
             row == newRow[id]
             other == [k \in DOMAIN rows[entity] \ {id} |-> rows[entity][k]]
         IN IF row = rows[entity][id]
            THEN FlushUpdates(rows, entity, Tail(ids), newRow)
            ELSE IF RowOk(rows, entity, other, row)
            THEN FlushUpdates([rows EXCEPT ![entity][id] = row], entity, Tail(ids), newRow)
            ELSE [ok |-> FALSE, rows |-> rows]

\* the flush of deleted rows, one DELETE per row in id order
RECURSIVE FlushDeletes(_, _, _)
FlushDeletes(rows, entity, ids) ==
    IF ids = <<>> THEN [ok |-> TRUE, rows |-> rows]
    ELSE LET id == Head(ids)
         IN IF Referenced(rows, entity, id)
            THEN [ok |-> FALSE, rows |-> rows]
            ELSE FlushDeletes(Nullified(rows, entity, id), entity, Tail(ids))

\* a faulty restore: the snapshot's id is not put back on the restored row,
\* the store generates a new one
RestoreFreshId(rows, seq, entity, id, obj) ==
    LET ins == InsertRow(rows, entity, seq[entity], [obj EXCEPT !.id = I(seq[entity])])
    IN [ok |-> ins.ok, rows |-> ins.rows, seq |-> [seq EXCEPT ![entity] = @ + 1]]

\* INSERT of a restored row: with the snapshot's id when it has one (id # 0),
\* with a generated id otherwise
RestoreRow(rows, seq, entity, id, obj) ==
    IF id # 0
    THEN LET ins == InsertRow(rows, entity, id, [obj EXCEPT !.id = I(id)])
         IN [ok |-> ins.ok, rows |-> ins.rows, seq |-> seq]
    ELSE LET ins == InsertRow(rows, entity, seq[entity],
                              [obj EXCEPT !.id = I(seq[entity])])
         IN [ok |-> ins.ok, rows |-> ins.rows,
             seq |-> [seq EXCEPT ![entity] = @ + 1]]

\* the flush of restored rows, one INSERT per row in list order
RECURSIVE FlushInserts(_, _, _, _)
FlushInserts(rows, seq, entity, snapshots) ==
    IF snapshots = <<>> THEN [ok |-> TRUE, rows |-> rows, seq |-> seq]
    ELSE LET snapshot == Head(snapshots)
             sid == Get(snapshot, "id")
             obj == Construct(entity, snapshot)
             ins == RestoreRow(rows, seq, entity,
                               IF sid = None THEN 0 ELSE sid.v, obj)
         IN IF ins.ok THEN FlushInserts(ins.rows, ins.seq, entity, Tail(snapshots))
            ELSE [ok |-> FALSE, rows |-> rows, seq |-> seq]

\* a faulty rollback: what the session flushed stays
SessionKeepsWork(committed, working) == working

\* AsyncSession.rollback(): the session's view returns to the committed store;
\* everything flushed since the session began is gone
SessionRollback(committed, working) == committed

(***************************************************************************)
(* Audit (_audit): one record appended to the audit log.                   *)
(***************************************************************************)
NoMeta == [reason |-> "", confidence |-> 0, error |-> ""]

\* the ImmutableAuditLog record _audit builds
AuditRecord(event_id, user, module, operation_type, event_type, risk_level, plan_id, execution_id, before_state, after_state, meta) ==
    [event_id |-> event_id,
     plan_id |-> plan_id,
     execution_id |-> execution_id,
     user_id |-> user.id,
     role |-> user.role,
     module |-> module,
     operation_type |-> operation_type,
     event_type |-> event_type,
     risk_level |-> risk_level,
     before_state |-> before_state,
     after_state |-> after_state,
     metadata |-> meta]

\* a faulty _audit: the record replaces the log instead of joining it
AuditOverwrite(store, record) == [store EXCEPT !.audit = <<record>>]

\* db.add(record); db.flush()
_audit(store, record) == [store EXCEPT !.audit = Append(@, record)]

(***************************************************************************)
(* Step 8 of create_and_execute: the operation itself, inside the try.     *)
(* The result carries ok (FALSE when a statement raised), the rows as the  *)
(* session sees them at that point, and the snapshots.                     *)
(***************************************************************************)
READ_ROW_LIMIT == 200

\* seq[:n]
Take(seq, n) == SubSeq(seq, 1, Min(n, Len(seq)))

\* [_model_to_dict(row) for row in rows] for the rows with the given ids
Snapshots(rows, entity, ids) ==
    [i \in 1..Len(ids) |-> _model_to_dict(entity, rows[entity][ids[i]])]

\* the value of a write: [ok, rows, seq, before, after, count]
OpFailed(store, snap, count) ==
    [ok |-> FALSE, rows |-> store.rows, seq |-> store.seq,
     before |-> snap, after |-> <<>>, count |-> count]

\* db.add(new_obj); flush; after_state = [_model_to_dict(new_obj)]
CreateFlush(store, entity, snap, obj, row, ins) ==
    IF ins.ok
    THEN [ok |-> TRUE, rows |-> ins.rows,
          seq |-> IF obj.id = None
                  THEN [store.seq EXCEPT ![entity] = @ + 1]
                  ELSE store.seq,
          before |-> snap,
          after |-> <<_model_to_dict(entity, row)>>,
          count |-> 1]
    ELSE OpFailed(store, snap, 0)

\* the row of the new object, with its defaults and its id
CreateRow(store, entity, snap, obj, row) ==
    CreateFlush(store, entity, snap, obj, row,
                InsertRow(store.rows, entity, row.id.v, row))

\* new_obj = model(**values)
CreateObj(store, entity, snap, obj) ==
    CreateRow(store, entity, snap, obj,
              WithDefaults(entity, obj,
                           IF obj.id = None THEN store.seq[entity] ELSE obj.id.v))

\* CREATE: one row built from values and inserted
CreateOp(store, entity, matched, values) ==
    IF \E k \in DOMAIN values : k \notin DOMAIN Columns(entity)
    THEN OpFailed(store, Snapshots(store.rows, entity, matched), 0)
    ELSE CreateObj(store, entity, Snapshots(store.rows, entity, matched),
                   Construct(entity, values))

\* a faulty UPDATE: before_state is captured after the values were applied
UpdateSnapshotLate(store, entity, matched, values) ==
    LET rows == store.rows
        newRow == [id \in DOMAIN rows[entity] |->
                      SetAttrs(entity, rows[entity][id], values)]
        fl == FlushUpdates(rows, entity, matched, newRow)
    IN [ok |-> fl.ok, rows |-> fl.rows, seq |-> store.seq,
        before |-> IF fl.ok THEN Snapshots(fl.rows, entity, matched)
                   ELSE Snapshots(rows, entity, matched),
        after |-> IF fl.ok THEN Snapshots(fl.rows, entity, matched) ELSE <<>>,
        count |-> Len(matched)]

\* the flush of an UPDATE and the snapshot after it
UpdateFlush(store, entity, matched, snap, fl) ==
    [ok |-> fl.ok, rows |-> fl.rows, seq |-> store.seq,
     before |-> snap,
     after |-> IF fl.ok THEN Snapshots(fl.rows, entity, matched) ELSE <<>>,
     count |-> Len(matched)]

\* UPDATE: snapshot, setattr on every matched row, flush, snapshot again
UpdateOp(store, entity, matched, values) ==
    IF matched # <<>> /\ \E k \in DOMAIN values : k \in Relationships(entity)
    THEN OpFailed(store, Snapshots(store.rows, entity, matched), Len(matched))
    ELSE UpdateFlush(store, entity, matched,
                     Snapshots(store.rows, entity, matched),
                     FlushUpdates(store.rows, entity, matched,
                                  [id \in DOMAIN store.rows[entity] |->
                                      SetAttrs(entity, store.rows[entity][id], values)]))

\* the flush of a DELETE
DeleteFlush(store, entity, matched, fl) ==
    [ok |-> fl.ok, rows |-> fl.rows, seq |-> store.seq,
     before |-> Snapshots(store.rows, entity, matched),
     after |-> <<>>, count |-> Len(matched)]

\* DELETE: snapshot, delete every matched row, flush
DeleteOp(store, entity, matched) ==
    DeleteFlush(store, entity, matched, FlushDeletes(store.rows, entity, matched))

\* the rows a READ or ANALYZE returns
ReadRows(store, snap, count) ==
    [ok |-> TRUE, rows |-> store.rows, seq |-> store.seq,
     before |-> snap, after |-> snap, count |-> count]

\* a faulty read that counts the executions on record with the rows
ReadCountsExecutions(store, entity, matched, limit) ==
    ReadRows(store, Take(Snapshots(store.rows, entity, matched), limit),
             Len(matched) + Cardinality(DOMAIN store.execs) - 1)

\* READ (capped at READ_ROW_LIMIT rows) and ANALYZE (a sample of 5 rows)
ReadOp(store, entity, matched, limit) ==
    ReadRows(store, Take(Snapshots(store.rows, entity, matched), limit), Len(matched))

\* the operation on the rows the filtered statement selected
OperationOn(store, intent, entity, matched, values) ==
    CASE intent = "ANALYZE" -> ReadOp(store, entity, matched, 5)
      [] intent = "READ" -> ReadOp(store, entity, matched, READ_ROW_LIMIT)
      [] intent = "CREATE" -> CreateOp(store, entity, matched, values)
      [] intent = "UPDATE" -> UpdateOp(store, entity, matched, values)
      [] OTHER -> DeleteOp(store, entity, matched)

Operation(store, intent, entity, filters, values) ==
    OperationOn(store, intent, entity,
                SortedIds(_apply_filters(store.rows, entity, filters)), values)

(***************************************************************************)
(* create_and_execute, step by step.  n is the fresh uuid of the call      *)
(* (plan_id, execution_id and event_id are derived from it).  The value is *)
(* the session's store when the call ends and the returned result, with    *)
(* status "raised" when an exception leaves the call.                      *)
(***************************************************************************)
Result(status) ==
    [status |-> status, plan_id |-> 0, execution_id |-> 0, reason |-> "",
     risk_level |-> "", affected_count |-> 0, before_state |-> <<>>,
     after_state |-> <<>>, errors |-> {}, error |-> ""]

Outcome(store, result) == [store |-> store, result |-> result]

\* an exception leaves the call: get_db rolls the session back
Raised(committed, error) ==
    Outcome(committed, [Result("raised") EXCEPT !.error = error])

\* before_state[:10] for READ and ANALYZE, the whole state otherwise
Stored(intent, state) ==
    IF intent \in {"READ", "ANALYZE"} THEN Take(state, 10) ELSE state

\* a faulty success path that stores the snapshots but leaves the statuses
ExecutedStaysPending(s1, n, user, module, intent, risk, op, stored_before, stored_after) ==
    Outcome(_audit([s1 EXCEPT !.rows = op.rows, !.seq = op.seq,
                              !.execs[n].before_state = stored_before,
                              !.execs[n].after_state = stored_after],
                   AuditRecord(n, user, module, intent, "executed", risk, n, n,
                               stored_before, stored_after, NoMeta)),
            [Result("executed") EXCEPT
                !.plan_id = n, !.execution_id = n, !.risk_level = risk])

\* steps 9 and 10: execution and plan updated, audit event "executed"
Executed(s1, n, user, module, intent, risk, op, stored_before, stored_after) ==
    Outcome(_audit([s1 EXCEPT !.rows = op.rows, !.seq = op.seq,
                              !.execs[n].before_state = stored_before,
                              !.execs[n].after_state = stored_after,
                              !.execs[n].status = "executed",
                              !.plans[n].status = "executed"],
                   AuditRecord(n, user, module, intent, "executed", risk, n, n,
                               stored_before, stored_after, NoMeta)),
            [Result("executed") EXCEPT
                !.plan_id = n, !.execution_id = n, !.risk_level = risk,
                !.affected_count = IF intent = "ANALYZE" THEN op.count
                                   ELSE IF intent = "CREATE" THEN Len(op.after)
                                   ELSE Len(op.before),
                !.before_state = op.before, !.after_state = op.after])

\* the plan and the execution re-fetched after the rollback and, when they are
\* found, marked failed
MarkFailed(store, n) ==
    [store EXCEPT
        !.plans = [k \in DOMAIN @ |->
                      IF k = n THEN [@[k] EXCEPT !.status = "failed"] ELSE @[k]],
        !.execs = [k \in DOMAIN @ |->
                      IF k = n THEN [@[k] EXCEPT !.status = "failed",
                                                 !.failure_state = "error"]
                      ELSE @[k]]]

\* the except branch: session rollback, re-fetch, audit event "failed"
Failed(committed, working, n, user, module, intent, risk, op) ==
    Outcome(_audit(MarkFailed(SessionRollback(committed, working), n),
                   AuditRecord(n, user, module, intent, "failed", risk, n, n,
                               op.before, op.after,
                               [NoMeta EXCEPT !.error = "error"])),
            [Result("failed") EXCEPT
                !.plan_id = n, !.execution_id = n, !.risk_level = risk,
                !.before_state = op.before, !.after_state = op.after,
                !.error = "error"])

\* the end of the try block
Finish(committed, s1, n, user, module, intent, risk, op) ==
    IF op.ok
    THEN Executed(s1, n, user, module, intent, risk, op,
                  Stored(intent, op.before), Stored(intent, op.after))
    ELSE Failed(committed, [s1 EXCEPT !.rows = op.rows], n, user, module,
                intent, risk, op)

\* step 8: the operation, in the session that holds the plan and the execution
Run(committed, s1, n, user, module, intent, entity, filters, values, risk) ==
    Finish(committed, s1, n, user, module, intent, risk,
           Operation(s1, intent, entity, filters, values))

\* json.dumps writes nan as the token NaN, which the store's JSON type rejects
JsonOk(dict) == \A k \in DOMAIN dict : dict[k].t # "nan"

\* steps 6 and 7: plan and execution flushed into the session; the flush of
\* the plan is outside the try block
Persist(committed, n, user, module, intent, entity, filters, values, confidence, impact, risk) ==
    IF ~(JsonOk(filters) /\ JsonOk(values)) THEN Raised(committed, "DBAPIError")
    ELSE
    Run(committed,
        [committed EXCEPT
            !.plans = @ @@ (n :> [plan_id |-> n, user_id |-> user.id,
                                  module |-> module, intent_type |-> intent,
                                  entity |-> entity, filters |-> filters,
                                  values |-> values, confidence |-> confidence,
                                  risk_level |-> risk,
                                  estimated_impact_count |-> impact,
                                  status |-> "executing"]),
            !.execs = @ @@ (n :> [execution_id |-> n, plan_id |-> n,
                                  executed_by |-> user.id, status |-> "pending",
                                  before_state |-> <<>>, after_state |-> <<>>,
                                  failure_state |-> "",
                                  rollback_state |-> FALSE])],
        n, user, module, intent, entity, filters, values, risk)

\* step 5, risk: classified from the impact
Classify(committed, n, user, module, intent, entity, filters, values, confidence, impact) ==
    Persist(committed, n, user, module, intent, entity, filters, values,
            confidence, impact,
            _classify_risk(intent, entity, impact, DOMAIN values))

\* step 5, impact: the count statement is built outside the try block
Estimate(committed, n, user, module, intent, entity, filters, values, confidence) ==
    IF FilterRaises(entity, filters)
    THEN Raised(committed, "ValueError")
    ELSE Classify(committed, n, user, module, intent, entity, filters, values,
                  confidence, _estimate_impact(committed.rows, entity, filters))

\* step 4: values of CREATE and UPDATE are validated and replaced by the clean ones
Validate(committed, n, user, module, intent, entity, filters, values, confidence, val) ==
    IF DOMAIN values # {} /\ intent \in {"CREATE", "UPDATE"}
    THEN IF val.errors # {}
         THEN Outcome(committed,
                      [Result("validation_error") EXCEPT !.errors = val.errors])
         ELSE Estimate(committed, n, user, module, intent, entity, filters,
                       val.clean, confidence)
    ELSE Estimate(committed, n, user, module, intent, entity, filters,
                  values, confidence)

\* a faulty threshold test: the confidence taken as a percentage
LowConfidencePercent(confidence) == confidence * 100 < OPS_CONFIDENCE_THRESHOLD

\* step 2: confidence < settings.OPS_CONFIDENCE_THRESHOLD
LowConfidence(confidence) == confidence < OPS_CONFIDENCE_THRESHOLD

\* step 2, low confidence: audit event and clarification result, nothing else
Clarification(committed, n, user, module, intent, confidence) ==
    Outcome(_audit(committed,
                   AuditRecord(n, user, module, intent, "clarification_needed",
                               "LOW", 0, 0, <<>>, <<>>,
                               [NoMeta EXCEPT !.confidence = confidence])),
            Result("clarification_needed"))

\* a faulty denial: the request is refused without an audit event
DeniedSilently(committed, n, user, module, intent, reason) ==
    Outcome(committed, [Result("denied") EXCEPT !.reason = reason])

\* step 3, gate refused: audit event and denied result, nothing else
Denied(committed, n, user, module, intent, reason) ==
    Outcome(_audit(committed,
                   AuditRecord(n, user, module, intent, "permission_denied",
                               "LOW", 0, 0, <<>>, <<>>,
                               [NoMeta EXCEPT !.reason = reason])),
            [Result("denied") EXCEPT !.reason = reason])

\* step 3: the verdict of the permission gate
Gated(committed, n, user, module, intent, entity, filters, values, confidence, gate) ==
    IF gate.raised THEN Raised(committed, gate.reason)
    ELSE IF ~gate.allowed
    THEN Denied(committed, n, user, module, intent, gate.reason)
    ELSE Validate(committed, n, user, module, intent, entity, filters, values,
                  confidence, _validate_field_values(values))

\* step 2: the confidence check, then the gate
Parsed(committed, n, user, module, intent, entity, filters, values, confidence) ==
    IF LowConfidence(confidence)
    THEN Clarification(committed, n, user, module, intent, confidence)
    ELSE Gated(committed, n, user, module, intent, entity, filters, values,
               confidence,
               _permission_gate(committed.rows, user, intent, entity, filters))

\* step 1: the fields of the extracted payload
Extracted(committed, n, user, module, ext) ==
    IF ext.raised THEN Raised(committed, "TypeError")
    ELSE Parsed(committed, n, user, module, ext.payload.intent,
                _normalize_entity(ext.payload.entity), ext.payload.filters,
                ext.payload.values, ext.payload.confidence)

create_and_execute(committed, n, user, oracle, msg, module) ==
    Extracted(committed, n, user, module, _extract_intent(oracle, msg))

(***************************************************************************)
(* rollback_execution.                                                     *)
(***************************************************************************)
\* the value of a reversal: [ok, rows, seq]
Flushed(fl, seq) == [ok |-> fl.ok, rows |-> fl.rows, seq |-> seq]

\* CREATE reversed: the rows named in after_state are deleted, when they exist
ReverseCreate(store, entity, after) ==
    Flushed(FlushDeletes(store.rows, entity,
                SortedIds({Get(after[i], "id").v :
                              i \in {j \in 1..Len(after) : Get(after[j], "id") # None}}
                          \cap DOMAIN store.rows[entity])),
            store.seq)

\* the snapshot of a row in before_state: they are applied in list order, so
\* the last one wins
SnapOf(before, id) ==
    before[CHOOSE i \in 1..Len(before) :
              /\ Get(before[i], "id") = I(id)
              /\ \A j \in 1..Len(before) : Get(before[j], "id") = I(id) => j <= i]

\* the rows of the entity that before_state names and that still exist
Surviving(rows, entity, before) ==
    {id \in DOMAIN rows[entity] :
        \E i \in 1..Len(before) : Get(before[i], "id") = I(id)}

\* UPDATE reversed: every snapshot field but id is set back on the row
ReverseUpdate(store, entity, before, ids) ==
    Flushed(FlushUpdates(store.rows, entity, SortedIds(ids),
                [id \in DOMAIN store.rows[entity] |->
                    IF id \in ids
                    THEN SetAttrs(entity, store.rows[entity][id],
                                  Without(SnapOf(before, id), "id"))
                    ELSE store.rows[entity][id]]),
            store.seq)

\* the reversal inside the try: [ok, rows, seq]
Reversal(store, plan, execution) ==
    CASE plan.intent_type = "CREATE" ->
            ReverseCreate(store, plan.entity, execution.after_state)
      [] plan.intent_type = "UPDATE" ->
            ReverseUpdate(store, plan.entity, execution.before_state,
                          Surviving(store.rows, plan.entity, execution.before_state))
      [] OTHER ->
            FlushInserts(store.rows, store.seq, plan.entity, execution.before_state)

\* a faulty rollback that marks the execution and leaves the plan executed
ReversedKeepsPlan(committed, n, user, execution_id, execution, plan, rev) ==
    IF rev.ok
    THEN Outcome(_audit([committed EXCEPT
                            !.rows = rev.rows, !.seq = rev.seq,
                            !.execs[execution_id].status = "rolled_back",
                            !.execs[execution_id].rollback_state = TRUE],
                        AuditRecord(n, user, plan.module, plan.intent_type,
                                    "rollback", plan.risk_level, plan.plan_id,
                                    execution_id, execution.after_state,
                                    execution.before_state, NoMeta)),
                 [Result("rolled_back") EXCEPT
                     !.plan_id = plan.plan_id, !.execution_id = execution_id])
    ELSE Outcome(committed,
                 [Result("rollback_failed") EXCEPT
                     !.execution_id = execution_id, !.error = "error"])

\* a faulty rollback whose failure leaves the statements already flushed
ReversedKeepsPartial(committed, n, user, execution_id, execution, plan, rev) ==
    IF rev.ok
    THEN Outcome(_audit([committed EXCEPT
                            !.rows = rev.rows, !.seq = rev.seq,
                            !.execs[execution_id].status = "rolled_back",
                            !.execs[execution_id].rollback_state = TRUE,
                            !.plans[plan.plan_id].status = "rolled_back"],
                        AuditRecord(n, user, plan.module, plan.intent_type,
                                    "rollback", plan.risk_level, plan.plan_id,
                                    execution_id, execution.after_state,
                                    execution.before_state, NoMeta)),
                 [Result("rolled_back") EXCEPT
                     !.plan_id = plan.plan_id, !.execution_id = execution_id])
    ELSE Outcome([committed EXCEPT !.rows = rev.rows],
                 [Result("rollback_failed") EXCEPT
                     !.execution_id = execution_id, !.error = "error"])

\* the end of the try block: statuses and audit event, or rollback_failed
Reversed(committed, n, user, execution_id, execution, plan, rev) ==
    IF rev.ok
    THEN Outcome(_audit([committed EXCEPT
                            !.rows = rev.rows, !.seq = rev.seq,
                            !.execs[execution_id].status = "rolled_back",
                            !.execs[execution_id].rollback_state = TRUE,
                            !.plans[plan.plan_id].status = "rolled_back"],
                        AuditRecord(n, user, plan.module, plan.intent_type,
                                    "rollback", plan.risk_level, plan.plan_id,
                                    execution_id, execution.after_state,
                                    execution.before_state, NoMeta)),
                 [Result("rolled_back") EXCEPT
                     !.plan_id = plan.plan_id, !.execution_id = execution_id])
    ELSE Outcome(committed,
                 [Result("rollback_failed") EXCEPT
                     !.execution_id = execution_id, !.error = "error"])

\* a faulty rollback that any user may request
CheckedAnyone(committed, n, user, execution_id, execution, plan) ==
    IF execution.status # "executed"
    THEN Outcome(committed,
                 [Result("error") EXCEPT !.error = "CANNOT_ROLLBACK_STATUS"])
    ELSE IF plan.intent_type \notin {"CREATE", "UPDATE", "DELETE"}
    THEN Outcome(committed,
                 [Result("error") EXCEPT
                     !.error = "ROLLBACK_NOT_SUPPORTED_FOR_OPERATION"])
    ELSE Reversed(committed, n, user, execution_id, execution, plan,
                  Reversal(committed, plan, execution))

\* a faulty rollback that does not look at the execution's status
CheckedAnyStatus(committed, n, user, execution_id, execution, plan) ==
    IF user.role # "admin" /\ execution.executed_by # user.id
    THEN Outcome(committed,
                 [Result("error") EXCEPT !.error = "ROLLBACK_NOT_PERMITTED"])
    ELSE IF plan.intent_type \notin {"CREATE", "UPDATE", "DELETE"}
    THEN Outcome(committed,
                 [Result("error") EXCEPT
                     !.error = "ROLLBACK_NOT_SUPPORTED_FOR_OPERATION"])
    ELSE Reversed(committed, n, user, execution_id, execution, plan,
                  Reversal(committed, plan, execution))

\* a faulty rollback that treats READ and ANALYZE like a write
CheckedAnyIntent(committed, n, user, execution_id, execution, plan) ==
    IF user.role # "admin" /\ execution.executed_by # user.id
    THEN Outcome(committed,
                 [Result("error") EXCEPT !.error = "ROLLBACK_NOT_PERMITTED"])
    ELSE IF execution.status # "executed"
    THEN Outcome(committed,
                 [Result("error") EXCEPT !.error = "CANNOT_ROLLBACK_STATUS"])
    ELSE Reversed(committed, n, user, execution_id, execution, plan,
                  [ok |-> TRUE, rows |-> committed.rows, seq |-> committed.seq])

\* the checks before the try block
Checked(committed, n, user, execution_id, execution, plan) ==
    IF user.role # "admin" /\ execution.executed_by # user.id
    THEN Outcome(committed,
                 [Result("error") EXCEPT !.error = "ROLLBACK_NOT_PERMITTED"])
    ELSE IF execution.status # "executed"
    THEN Outcome(committed,
                 [Result("error") EXCEPT !.error = "CANNOT_ROLLBACK_STATUS"])
    ELSE IF plan.intent_type \notin {"CREATE", "UPDATE", "DELETE"}
    THEN Outcome(committed,
                 [Result("error") EXCEPT
                     !.error = "ROLLBACK_NOT_SUPPORTED_FOR_OPERATION"])
    ELSE Reversed(committed, n, user, execution_id, execution, plan,
                  Reversal(committed, plan, execution))

rollback_execution(committed, n, user, execution_id) ==
    IF execution_id \notin DOMAIN committed.execs
    THEN Outcome(committed, [Result("error") EXCEPT !.error = "EXECUTION_NOT_FOUND"])
    ELSE IF committed.execs[execution_id].plan_id \notin DOMAIN committed.plans
    THEN Outcome(committed, [Result("error") EXCEPT !.error = "PLAN_NOT_FOUND"])
    ELSE Checked(committed, n, user, execution_id, committed.execs[execution_id],
                 committed.plans[committed.execs[execution_id].plan_id])

(***************************************************************************)
(* Stats and history (read-only).                                          *)
(***************************************************************************)
\* seq[::-1]
RECURSIVE Reverse(_)
Reverse(seq) == IF seq = <<>> THEN <<>> ELSE Reverse(Tail(seq)) \o <<Head(seq)>>

\* the requested filters of get_audit_history; "" and 0 are "not given"
HistoryQuery(module, operation_type, risk_level, actor_user_id) ==
    [module |-> module, operation_type |-> operation_type,
     risk_level |-> risk_level, actor_user_id |-> actor_user_id]

NoQuery == HistoryQuery("", "", "", 0)

\* a faulty WHERE clause: a requested actor replaces the caller's own id
HistoryKeepsActor(ev, user, query) ==
    /\ query.module # "" => ev.module = query.module
    /\ query.operation_type # "" => ev.operation_type = query.operation_type
    /\ query.risk_level # "" => ev.risk_level = query.risk_level
    /\ IF query.actor_user_id # 0
       THEN ev.user_id = query.actor_user_id
       ELSE user.role # "admin" => ev.user_id = user.id

\* the WHERE clause of get_audit_history: the requested filters, and for a
\* caller that is no admin the caller's own id
HistoryKeeps(ev, user, query) ==
    /\ query.module # "" => ev.module = query.module
    /\ query.operation_type # "" => ev.operation_type = query.operation_type
    /\ query.risk_level # "" => ev.risk_level = query.risk_level
    /\ query.actor_user_id # 0 => ev.user_id = query.actor_user_id
    /\ user.role # "admin" => ev.user_id = user.id

RECURSIVE HistorySelect(_, _, _)
HistorySelect(events, user, query) ==
    IF events = <<>> THEN <<>>
    ELSE (IF HistoryKeeps(Head(events), user, query)
          THEN <<Head(events)>> ELSE <<>>)
         \o HistorySelect(Tail(events), user, query)

\* get_audit_history: the selected events, newest first
get_audit_history(store, user, query) ==
    Reverse(HistorySelect(store.audit, user, query))

\* get_ops_stats: counts over plans and executions
get_ops_stats(store) ==
    [total_plans |-> Cardinality(DOMAIN store.plans),
     failed_total |-> Cardinality({e \in DOMAIN store.execs :
                                      store.execs[e].status = "failed"}),
     rolled_back_total |-> Cardinality({e \in DOMAIN store.execs :
                                      store.execs[e].status = "rolled_back"})]

NoResult == Result("none")

NoPayload ==
    [intent |-> "", entity |-> "", filters |-> EmptyDict, values |-> EmptyDict,
     confidence |-> 0, ambiguous |-> FALSE]

Init ==
    /\ db = InitStore
    /\ uuid = 1
    /\ hist = EmptyDict
    /\ open = {}
    /\ last = [op |-> "none", user |-> [id |-> 0, role |-> ""], target |-> 0,
               raised |-> FALSE, payload |-> NoPayload, result |-> NoResult,
               view |-> <<>>, query |-> NoQuery]

(***************************************************************************)
(* Actions: one public call each, run to completion in its own session.    *)
(* hist[e] keeps, for an executed execution e, the rows its operation      *)
(* matched as they were before the operation (pre) and the rows it         *)
(* inserted (new); last describes the last call.                           *)
(***************************************************************************)
Matched(store, payload) ==
    LET entity == _normalize_entity(payload.entity)
    IN [id \in _apply_filters(store.rows, entity, payload.filters) |->
            store.rows[entity][id]]

Inserted(store, after, payload) ==
    LET entity == _normalize_entity(payload.entity)
    IN [id \in DOMAIN after.rows[entity] \ DOMAIN store.rows[entity] |->
            after.rows[entity][id]]

\* the call returns: get_db commits the session, the reply is kept in last
Executes(user, ext, out) ==
    /\ db' = out.store
    /\ uuid' = uuid + 1
    /\ hist' = IF out.result.status = "executed"
               THEN hist @@ (uuid :> [pre |-> Matched(db, ext.payload),
                                      new |-> Inserted(db, out.store, ext.payload)])
               ELSE hist
    /\ open' = open
    /\ last' = [op |-> "execute", user |-> user, target |-> 0,
                raised |-> ext.raised,
                payload |-> IF ext.raised THEN NoPayload ELSE ext.payload,
                result |-> out.result, view |-> <<>>, query |-> NoQuery]

Execute(user, oracle, msg, module) ==
    /\ uuid <= MaxCalls
    /\ Executes(user, _extract_intent(oracle, msg),
                create_and_execute(db, uuid, user, oracle, msg, module))

RollsBack(user, execution_id, out) ==
    /\ db' = out.store
    /\ uuid' = uuid + 1
    /\ hist' = hist
    /\ open' = open
    /\ last' = [op |-> "rollback", user |-> user, target |-> execution_id,
                raised |-> FALSE, payload |-> NoPayload, result |-> out.result,
                view |-> <<>>, query |-> NoQuery]

Rollback(user, execution_id) ==
    /\ uuid <= MaxCalls
    /\ RollsBack(user, execution_id,
                 rollback_execution(db, uuid, user, execution_id))

\* the read-only calls leave the store alone; last.view is what they return
AuditHistory(user, query) ==
    /\ uuid <= MaxCalls
    /\ UNCHANGED <<db, uuid, hist, open>>
    /\ last' = [op |-> "history", user |-> user, target |-> query.actor_user_id,
                raised |-> FALSE, payload |-> NoPayload, result |-> Result("history"),
                view |-> get_audit_history(db, user, query), query |-> query]

Stats(user) ==
    /\ uuid <= MaxCalls
    /\ UNCHANGED <<db, uuid, hist, open>>
    /\ last' = [op |-> "stats", user |-> user, target |-> 0,
                raised |-> FALSE, payload |-> NoPayload, result |-> Result("stats"),
                view |-> <<get_ops_stats(db)>>, query |-> NoQuery]

(***************************************************************************)
(* Requests.                                                               *)
(***************************************************************************)
Admin == [id |-> 1, role |-> "admin"]

Faculty == [id |-> 2, role |-> "faculty"]

Student == [id |-> 3, role |-> "student"]

NoMsg == [tokens |-> {}, ents |-> {}, sem |-> 0, dept |-> None, cgpaTo |-> 0]

\* an oracle answer that is a JSON object with a numeric confidence
Answer(intent, entity, filters, values, conf) ==
    [kind |-> "dict", intent |-> intent, entity |-> entity, filters |-> filters,
     values |-> values, conf |-> [t |-> "num", v |-> conf], ambiguous |-> FALSE]

NewCourse(code) == [code |-> S(code), department_id |-> I(1), semester |-> I(2)]

\* confident write requests on the course and attendance tables
WriteAnswers ==
    {Answer("UPDATE", "course", [id |-> I(1)], [credits |-> I(5)], 95),
     Answer("UPDATE", "course", EmptyDict, [credits |-> I(4)], 95),
     Answer("UPDATE", "course", EmptyDict, [code |-> S(9)], 95),
     Answer("UPDATE", "attendance", [id |-> I(1)], [is_present |-> B(0)], 95),
     Answer("DELETE", "course", [id |-> I(1)], EmptyDict, 95),
     Answer("DELETE", "course", EmptyDict, EmptyDict, 95),
     Answer("DELETE", "attendance", [id |-> I(1)], EmptyDict, 95),
     Answer("CREATE", "course", EmptyDict, NewCourse(3), 95),
     Answer("CREATE", "course", [id |-> I(1)], NewCourse(1), 95),
     Answer("CREATE", "attendance", EmptyDict,
            [student_id |-> I(1), course_id |-> I(1), date |-> isoformat(D(2))], 95),
     Answer("READ", "course", EmptyDict, EmptyDict, 95)}

ExecuteWrite == \E o \in WriteAnswers : Execute(Admin, o, NoMsg, "nlp")

RollbackAny == \E e \in 1..MaxCalls : Rollback(Admin, e)

NextRb == ExecuteWrite \/ RollbackAny

SpecRb == Init /\ [][NextRb]_vars

(***************************************************************************)
(* Properties of the rollback engine and of failed executions.             *)
(***************************************************************************)
\* the step is a Rollback that reports rolled_back for an execution of the intent
RolledBack(intent) ==
    /\ last'.op = "rollback"
    /\ last'.result.status = "rolled_back"
    /\ db.plans[last'.target].intent_type = intent

TargetEntity == db.plans[last'.target].entity

\* C1 as stated: after a successful Rollback of an executed UPDATE every row
\* captured in before_state has all its fields equal to their pre-update values.
C1_RoundTripEveryRow ==
    [][RolledBack("UPDATE") =>
          \A id \in DOMAIN hist[last'.target].pre :
              /\ id \in DOMAIN db'.rows[TargetEntity]
              /\ db'.rows[TargetEntity][id] = hist[last'.target].pre[id]]_vars

\* C1 amended: after a successful Rollback of an executed UPDATE every row
\* captured in before_state that still exists when the Rollback runs has all
\* its fields equal to their pre-update values.
C1_RoundTripExistingRows ==
    [][RolledBack("UPDATE") =>
          \A id \in DOMAIN hist[last'.target].pre :
              id \in DOMAIN db.rows[TargetEntity] =>
                  /\ id \in DOMAIN db'.rows[TargetEntity]
                  /\ db'.rows[TargetEntity][id] = hist[last'.target].pre[id]]_vars

\* an UPDATE that changed a row has been rolled back and the row is restored
C1_Witness ==
    /\ last.op = "rollback" /\ last.result.status = "rolled_back"
    /\ db.plans[last.target].intent_type = "UPDATE"
    /\ db.execs[last.target].before_state # db.execs[last.target].after_state
    /\ \E id \in DOMAIN hist[last.target].pre :
          /\ id \in DOMAIN db.rows[db.plans[last.target].entity]
          /\ db.rows[db.plans[last.target].entity][id] = hist[last.target].pre[id]

C3_CreateUndone ==
    [][RolledBack("CREATE") =>
          /\ \A id \in DOMAIN hist[last'.target].new :
                id \notin DOMAIN db'.rows[TargetEntity]
          /\ \A e \in ENTITY_REGISTRY : \A id \in DOMAIN db.rows[e] :
                IF e = TargetEntity /\ id \in DOMAIN hist[last'.target].new
                THEN TRUE
                ELSE id \in DOMAIN db'.rows[e] /\ db'.rows[e][id] = db.rows[e][id]]_vars

\* a CREATE has been rolled back while other executions had written in between
C3_Witness ==
    /\ last.op = "rollback" /\ last.result.status = "rolled_back"
    /\ db.plans[last.target].intent_type = "CREATE"
    /\ DOMAIN hist[last.target].new # {}
    /\ DOMAIN hist[last.target].new \cap DOMAIN db.rows[db.plans[last.target].entity] = {}
    /\ db.rows # InitRows

\* C6: when the operation of an Execute raises, the Plan and the Execution of
\* the request stay persisted with status failed, the Execution carries the
\* failure_state, one "failed" audit event is written and the result is
\* failed with that plan_id and execution_id.
C6_FailedPersisted ==
    (last.op = "execute" /\ last.result.status = "failed") =>
        /\ last.result.plan_id \in DOMAIN db.plans
        /\ db.plans[last.result.plan_id].status = "failed"
        /\ last.result.execution_id \in DOMAIN db.execs
        /\ db.execs[last.result.execution_id].status = "failed"
        /\ db.execs[last.result.execution_id].failure_state # ""
        /\ Cardinality({i \in 1..Len(db.audit) :
                /\ db.audit[i].event_type = "failed"
                /\ db.audit[i].plan_id = last.result.plan_id}) = 1

\* C7: when the operation of an Execute fails partway, every domain row has
\* the value it had before the request.
C7_NoPartialWrite ==
    [][(last'.op = "execute" /\ last'.result.status = "failed") =>
          db'.rows = db.rows]_vars

\* a multi-row UPDATE or DELETE has failed after its first row was written
C7_Witness ==
    /\ last.op = "execute" /\ last.result.status = "failed"
    /\ last.payload.intent \in {"UPDATE", "DELETE"}
    /\ Len(last.result.before_state) >= 2

(***************************************************************************)
(* Properties of the pipeline's terminal transitions and of the audit log. *)
(***************************************************************************)
\* the step is a terminal transition of Execute or a completed Rollback
TerminalStep ==
    \/ /\ last'.op = "execute"
       /\ last'.result.status \in {"clarification_needed", "denied",
                                   "validation_error", "executed", "failed"}
    \/ /\ last'.op = "rollback"
       /\ last'.result.status = "rolled_back"

\* C4: every terminal transition appends exactly one audit event and nothing
\* else appends one, so the audit events count the terminal transitions.
C4_OneAuditPerTerminal ==
    [][Len(db'.audit) = Len(db.audit) + (IF TerminalStep THEN 1 ELSE 0)]_vars

\* C5: audit events are append-only (every earlier event stays, unchanged and
\* in place) and all event_ids are pairwise distinct.
C5_AuditAppendOnly ==
    [][/\ Len(db'.audit) >= Len(db.audit)
       /\ \A i \in 1..Len(db.audit) : db'.audit[i] = db.audit[i]
       /\ \A i, j \in 1..Len(db'.audit) :
             i # j => db'.audit[i].event_id # db'.audit[j].event_id]_vars

\* an Execute whose operation failed and rolled the session back, with an
\* earlier audit event still in the log
C5_Witness ==
    /\ last.op = "execute" /\ last.result.status = "failed"
    /\ Len(db.audit) >= 2
    /\ db.audit[1].event_id # db.audit[Len(db.audit)].event_id

\* C8: no call lets an exception cross the public boundary.
C8_NoExceptionEscapes == last.result.status # "raised"

GateDenies ==
    /\ last'.op = "execute" /\ ~last'.raised
    /\ last'.payload.confidence >= OPS_CONFIDENCE_THRESHOLD
    /\ LET g == _permission_gate(db.rows, last'.user, last'.payload.intent,
                                 _normalize_entity(last'.payload.entity),
                                 last'.payload.filters)
       IN ~g.raised /\ ~g.allowed

GateVerdict ==
    _permission_gate(db.rows, last'.user, last'.payload.intent,
                     _normalize_entity(last'.payload.entity), last'.payload.filters)

\* the request of the step passed the confidence check and the gate
GatePasses ==
    /\ last'.op = "execute" /\ ~last'.raised
    /\ last'.payload.confidence >= OPS_CONFIDENCE_THRESHOLD
    /\ ~GateVerdict.raised /\ GateVerdict.allowed

\* the value violates the rule of its field: it cannot be coerced to the
\* rule's type, or the coerced value is not within [min, max]
Violates(key, val) ==
    /\ FIELD_RULES(key) # NoRule
    /\ \/ ~CoerceOk(FIELD_RULES(key).type, val)
       \/ /\ FIELD_RULES(key).hasMin
          /\ ~(Coerce(FIELD_RULES(key).type, val).t # "nan"
               /\ Coerce(FIELD_RULES(key).type, val).v >= FIELD_RULES(key).min)
       \/ /\ FIELD_RULES(key).hasMax
          /\ ~(Coerce(FIELD_RULES(key).type, val).t # "nan"
               /\ Coerce(FIELD_RULES(key).type, val).v <= FIELD_RULES(key).max)

\* C11: a CREATE or UPDATE that passes the gate with a value that violates
\* its field rule ends in validation_error with the field errors listed,
\* creates no Plan and no Execution and changes no domain row.
C11_BadValueRejected ==
    [][(/\ GatePasses
        /\ last'.payload.intent \in {"CREATE", "UPDATE"}
        /\ \E k \in DOMAIN last'.payload.values :
              Violates(k, last'.payload.values[k])) =>
          /\ last'.result.status = "validation_error"
          /\ last'.result.errors # {}
          /\ db'.plans = db.plans
          /\ db'.execs = db.execs
          /\ db'.rows = db.rows]_vars

\* the step is an Execute of a student's CREATE, UPDATE or DELETE
StudentWrite ==
    /\ last'.op = "execute" /\ ~last'.raised
    /\ last'.user.role = "student"
    /\ last'.payload.intent \in {"CREATE", "UPDATE", "DELETE"}

OtherDepartment ==
    /\ last'.op = "execute" /\ ~last'.raised
    /\ last'.user.role \in {"student", "faculty"}
    /\ _user_department_scope(db.rows, last'.user) # 0
    /\ \E d \in DOMAIN Departments :
          /\ d # _user_department_scope(db.rows, last'.user)
          /\ \/ /\ "department_id" \in DOMAIN last'.payload.filters
                /\ last'.payload.filters["department_id"] = I(d)
             \/ /\ "department_id" \notin DOMAIN last'.payload.filters
                /\ "department" \in DOMAIN last'.payload.filters
                /\ DeptLike(last'.payload.filters["department"]) = {d}

Foreign(rows, dept) ==
    [e \in {"student", "course"} |->
        [id \in {i \in DOMAIN rows[e] : rows[e][i].department_id # I(dept)} |->
            rows[e][id]]]

\* C14: no executed CREATE, UPDATE or DELETE of a non-admin actor changes a
\* row of another department than the actor's home department.
C14_WritesStayInDepartment ==
    [][(/\ last'.op = "execute" /\ last'.result.status = "executed"
        /\ last'.payload.intent \in {"CREATE", "UPDATE", "DELETE"}
        /\ last'.user.role # "admin"
        /\ _user_department_scope(db.rows, last'.user) # 0) =>
          Foreign(db'.rows, _user_department_scope(db.rows, last'.user))
            = Foreign(db.rows, _user_department_scope(db.rows, last'.user))]_vars

\* C15: the gate returns allowed exactly with the reason OK, its reason is
\* one of the four codes, a combination outside the role matrix yields
\* ROLE_RESTRICTED, an admin request on a registry entity yields OK, and a
\* denied result and its audit event carry the code.
C15_ReasonCodes ==
    [][(/\ last'.op = "execute" /\ ~last'.raised
        /\ last'.payload.confidence >= OPS_CONFIDENCE_THRESHOLD) =>
          /\ ~GateVerdict.raised
          /\ GateVerdict.allowed <=> GateVerdict.reason = "OK"
          /\ GateVerdict.reason \in {"ROLE_RESTRICTED", "DEPARTMENT_SCOPE_RESTRICTED",
                                     "STUDENT_WRITE_RESTRICTED", "OK"}
          /\ ~_is_allowed(last'.user.role, last'.payload.intent,
                          _normalize_entity(last'.payload.entity)) =>
                GateVerdict.reason = "ROLE_RESTRICTED"
          /\ (/\ last'.user.role = "admin"
              /\ _normalize_entity(last'.payload.entity) \in ENTITY_REGISTRY) =>
                GateVerdict.reason = "OK"
          /\ last'.result.status = "denied" =>
                /\ last'.result.reason = GateVerdict.reason
                /\ db'.audit[Len(db'.audit)].metadata.reason = GateVerdict.reason]_vars

(***************************************************************************)
(* Properties of the rollback preconditions and of the Plan and Execution  *)
(* life cycle.                                                             *)
(***************************************************************************)
\* the step is a Rollback of an Execution that exists, with its Plan
RollbackOfKnown ==
    /\ last'.op = "rollback"
    /\ last'.target \in DOMAIN db.execs
    /\ db.execs[last'.target].plan_id \in DOMAIN db.plans

\* the requester of the step's Rollback is the executor or an admin
MayRollBack ==
    \/ last'.user.role = "admin"
    \/ db.execs[last'.target].executed_by = last'.user.id

\* C16: a Rollback requested by someone who is neither the executor nor an
\* admin returns ROLLBACK_NOT_PERMITTED and leaves rows, Execution, Plan and
\* audit log unchanged; a reversal is applied only for the executor or an admin.
C16_RollbackOnlyByExecutorOrAdmin ==
    [][RollbackOfKnown =>
          /\ ~MayRollBack =>
                /\ last'.result.error = "ROLLBACK_NOT_PERMITTED"
                /\ db' = db
          /\ db' # db => MayRollBack]_vars

\* a student asked to roll back an executed write of another user and was refused
C16_Witness ==
    /\ last.op = "rollback" /\ last.user.role = "student"
    /\ last.result.error = "ROLLBACK_NOT_PERMITTED"
    /\ last.target \in DOMAIN db.execs
    /\ db.execs[last.target].status = "executed"
    /\ db.execs[last.target].executed_by # last.user.id
    /\ db.plans[last.target].intent_type \in {"CREATE", "UPDATE", "DELETE"}

\* the rollback audit events of an execution
RollbackEvents(audit, e) ==
    {i \in 1..Len(audit) :
        audit[i].event_type = "rollback" /\ audit[i].execution_id = e}

\* C17: a Rollback of an Execution that is not in state executed returns an
\* error and changes nothing, and no Execution ever has more than one
\* rollback audit event.
C17_RollbackOnlyOnce ==
    [][/\ (RollbackOfKnown /\ db.execs[last'.target].status # "executed") =>
             /\ last'.result.status = "error"
             /\ db' = db
       /\ last'.result.status = "rolled_back" =>
             db.execs[last'.target].status = "executed"
       /\ \A e \in DOMAIN db'.execs :
             Cardinality(RollbackEvents(db'.audit, e)) <= 1]_vars

\* a second Rollback of a rolled-back Execution was refused
C17_Witness ==
    /\ last.op = "rollback" /\ last.result.error = "CANNOT_ROLLBACK_STATUS"
    /\ last.target \in DOMAIN db.execs
    /\ db.execs[last.target].status = "rolled_back"
    /\ Cardinality(RollbackEvents(db.audit, last.target)) = 1

\* C18: a Rollback of an executed READ or ANALYZE, asked by its executor or
\* an admin, returns the not-supported signal, changes nothing, writes no
\* rollback audit event and leaves Execution and Plan in state executed.
C18_ReadNotRolledBack ==
    [][(/\ RollbackOfKnown /\ MayRollBack
        /\ db.execs[last'.target].status = "executed"
        /\ db.plans[db.execs[last'.target].plan_id].intent_type \in {"READ", "ANALYZE"}) =>
          /\ last'.result.error = "ROLLBACK_NOT_SUPPORTED_FOR_OPERATION"
          /\ db' = db
          /\ RollbackEvents(db'.audit, last'.target) = {}
          /\ db'.execs[last'.target].status = "executed"
          /\ db'.plans[db.execs[last'.target].plan_id].status = "executed"]_vars

\* the executor of an ANALYZE asked to roll it back and got the signal
C18_Witness ==
    /\ last.op = "rollback"
    /\ last.result.error = "ROLLBACK_NOT_SUPPORTED_FOR_OPERATION"
    /\ last.user.role # "admin"
    /\ db.execs[last.target].executed_by = last.user.id
    /\ db.plans[last.target].intent_type = "ANALYZE"

\* C19: every plan_id and execution_id that an Execute returned with status
\* executed or failed, and hence every one an audit event carries, names a
\* Plan and an Execution that exist.
C19_PlansRetained ==
    /\ (last.op = "execute" /\ last.result.status \in {"executed", "failed"}) =>
          /\ last.result.plan_id \in DOMAIN db.plans
          /\ last.result.execution_id \in DOMAIN db.execs
    /\ \A i \in 1..Len(db.audit) :
          /\ db.audit[i].plan_id # 0 => db.audit[i].plan_id \in DOMAIN db.plans
          /\ db.audit[i].execution_id # 0 =>
                db.audit[i].execution_id \in DOMAIN db.execs

\* the status of a record moved along an edge of the life cycle, or stayed
StatusEdge(old, new) ==
    \/ new = old
    \/ old = "executed" /\ new = "rolled_back"

MaxGateCalls == 2

Msg(tokens, ents, sem, cgpaTo) ==
    [tokens |-> tokens, ents |-> ents, sem |-> sem, dept |-> None, cgpaTo |-> cgpaTo]

\* "Update student", "Show students in semester 3", "Delete course",
\* "Set cgpa to 9.0 for students in semester 3", "... cgpa to 15.0 ..."
Messages ==
    {Msg({"update"}, {"student"}, 0, 0),
     Msg({}, {"student"}, 3, 0),
     Msg({"delete"}, {"course"}, 0, 0),
     Msg({"update"}, {"student"}, 3, 90),
     Msg({"update"}, {"student"}, 3, 150)}

OracleDown == [kind |-> "error"]

\* answers that are no usable JSON object, or carry an unusual confidence
OddAnswers ==
    {[kind |-> "nonobject"],
     [Answer("READ", "course", EmptyDict, EmptyDict, 0) EXCEPT
         !.conf = [t |-> "none", v |-> 0]],
     [Answer("DELETE", "course", [id |-> I(1)], EmptyDict, 0) EXCEPT
         !.conf = [t |-> "absent", v |-> 0]],
     Answer("UPDATE", "course", [id |-> I(1)], [credits |-> I(5)], 41),
     Answer("DELETE", "attendance", [id |-> I(1)], EmptyDict, 74)}

\* confident answers that exercise the gate, the validator and the filters
GateAnswers ==
    {Answer("READ", "students", EmptyDict, EmptyDict, 95),
     Answer("READ", "course", [department_id |-> I(2)], EmptyDict, 95),
     Answer("READ", "course", [department |-> S(3)], EmptyDict, 95),
     Answer("READ", "course", [id |-> S(5)], EmptyDict, 95),
     Answer("ANALYZE", "attendance", EmptyDict, EmptyDict, 90),
     Answer("DELETE", "course", [id |-> I(1)], EmptyDict, 92),
     Answer("DELETE", "attendance", [id |-> I(1)], EmptyDict, 75),
     Answer("UPDATE", "course", [id |-> I(1)], [credits |-> I(5)], 95),
     Answer("UPDATE", "course", [id |-> I(1)], [credits |-> I(9)], 95),
     Answer("UPDATE", "student", [id |-> I(1)], [cgpa |-> NaN], 95),
     Answer("UPDATE", "course", [id |-> I(2)], [credits |-> I(5)], 95),
     Answer("READ", "course", [department_id |-> I(2)], EmptyDict, 70),
     Answer("UPDATE", "student", [department_id |-> I(2)], [semester |-> I(4)], 95),
     Answer("UPDATE", "course", EmptyDict, [code |-> S(9)], 95),
     Answer("CREATE", "course", EmptyDict, NewCourse(1), 95)}

ExecuteAnswer ==
    \E u \in Users : \E o \in OddAnswers \cup GateAnswers :
        uuid <= MaxGateCalls /\ Execute(u, o, NoMsg, "nlp")

ExecuteFallback ==
    \E u \in Users : \E m \in Messages :
        uuid <= MaxGateCalls /\ Execute(u, OracleDown, m, "nlp")

RollbackCall ==
    \E u \in Users : \E e \in 1..MaxGateCalls :
        uuid <= MaxGateCalls /\ Rollback(u, e)

HistoryCall == \E u \in Users : uuid <= MaxGateCalls /\ AuditHistory(u, NoQuery)

StatsCall == uuid <= MaxGateCalls /\ Stats(Admin)

Next == ExecuteAnswer \/ ExecuteFallback \/ RollbackCall \/ HistoryCall \/ StatsCall

Spec == Init /\ [][Next]_vars

(***************************************************************************)
(* Requests of the read paths: READ and ANALYZE with filters of every      *)
(* kind, writes that change what the filters match, an answer the oracle   *)
(* flagged ambiguous, and history queries with requested filters.          *)
(***************************************************************************)
MaxQueryCalls == 2

\* an answer whose ambiguity.is_ambiguous is true
Ambiguous(answer) == [answer EXCEPT !.ambiguous = TRUE]

\* "room" is no attribute of Course: a filter on it cannot be resolved
QueryAnswers ==
    {Answer("READ", "course", EmptyDict, EmptyDict, 95),
     Answer("READ", "course", [department_id |-> I(1)], EmptyDict, 95),
     Answer("READ", "course", [credits__gt |-> I(3)], EmptyDict, 95),
     Answer("READ", "course", [department_id |-> I(1), credits__gt |-> I(3)], EmptyDict, 95),
     Answer("READ", "course", [room |-> I(7)], EmptyDict, 95),
     Answer("READ", "course", [room |-> I(7), department_id |-> I(1)], EmptyDict, 95),
     Answer("READ", "course", [id |-> S(5)], EmptyDict, 95),
     Answer("UPDATE", "course", [id |-> I(2)], [credits |-> I(5)], 95),
     Answer("UPDATE", "course", [room |-> I(7)], [credits |-> I(4)], 95),
     Answer("ANALYZE", "attendance", EmptyDict, EmptyDict, 95),
     Answer("ANALYZE", "course", [department_id |-> I(1)], EmptyDict, 95),
     Answer("DELETE", "attendance", [id |-> I(1)], EmptyDict, 95),
     Ambiguous(Answer("UPDATE", "course", EmptyDict, [credits |-> I(4)], 90))}

Queries ==
    {NoQuery,
     HistoryQuery("", "", "", 1), HistoryQuery("", "", "", 2),
     HistoryQuery("", "", "", 3), HistoryQuery("", "READ", "", 0),
     HistoryQuery("", "", "LOW", 0), HistoryQuery("hr", "", "", 0),
     HistoryQuery("", "READ", "", 1)}

QueryExecute ==
    \E u \in {Admin, Faculty} : \E o \in QueryAnswers :
        uuid <= MaxQueryCalls /\ Execute(u, o, NoMsg, "nlp")

QueryHistory ==
    \E u \in Users : \E q \in Queries :
        uuid <= MaxQueryCalls /\ AuditHistory(u, q)

NextQuery == QueryExecute \/ QueryHistory

SpecQuery == Init /\ [][NextQuery]_vars

(***************************************************************************)
(* Properties of extraction, risk, history and filters.                    *)
(***************************************************************************)
\* C21: a request whose payload the oracle flagged ambiguous ends in
\* clarification_needed and creates no Execution, whatever its confidence.
C21_AmbiguousClarifies ==
    [][(last'.op = "execute" /\ ~last'.raised /\ last'.payload.ambiguous) =>
          /\ last'.result.status = "clarification_needed"
          /\ db'.execs = db.execs]_vars

(***************************************************************************)
(* Intent extraction on its own: every course of the HTTP attempts, every  *)
(* form of oracle text, and messages for the keyword parser, one           *)
(* extraction per behaviour.  last.target is the number of attempts made,  *)
(* last.view the inputs.                                                   *)
(***************************************************************************)
OracleTexts ==
    {[form |-> f, answer |-> Answer("READ", "course", EmptyDict, EmptyDict, 95)] :
        f \in {"garbage", "null", "array", "object", "prose"}}
    \cup {[form |-> "object",
           answer |-> [Answer("READ", "course", EmptyDict, EmptyDict, 0) EXCEPT
                          !.conf = [t |-> "none", v |-> 0]]]}

ExtractCall ==
    \E responses \in [1..GEMINI_MAX_RETRIES ->
                         {"rate_limited", "http_error", "api_error", "network",
                          "empty", "text"}] :
      \E text \in OracleTexts : \E msg \in Messages :
        /\ last.op = "none"
        /\ UNCHANGED <<db, uuid, hist, open>>
        /\ last' = [op |-> "extract", user |-> Admin,
                    target |-> _call(responses, 0).attempts,
                    raised |-> _extract_intent(ask_json(responses, text), msg).raised,
                    payload |-> _extract_intent(ask_json(responses, text), msg).payload,
                    result |-> Result("extract"),
                    view |-> <<responses, text, msg>>, query |-> NoQuery]

\* _normalize_entity on its own, on one spelling of one name of AliasNames
AliasCall ==
    \E n \in AliasNames : \E casing \in {"lower", "upper", "title"} :
        /\ last.op = "none"
        /\ UNCHANGED <<db, uuid, hist, open>>
        /\ last' = [op |-> "alias", user |-> Admin, target |-> 0,
                    raised |-> FALSE,
                    payload |-> [NoPayload EXCEPT !.entity =
                                    _normalize_entity(n[casing])],
                    result |-> Result("alias"),
                    view |-> <<n.key, n.plural, casing>>, query |-> NoQuery]

SpecOracle == Init /\ [][ExtractCall \/ AliasCall]_vars

\* the oracle call ended in failure: every attempt was rate-limited or met a
\* network error, or the first other response was an HTTP error, an error
\* body, an empty text or a text that cannot be parsed
Settled(responses) ==
    {i \in DOMAIN responses : responses[i] \notin {"rate_limited", "network"}}

OracleFailed(responses, text) ==
    \/ Settled(responses) = {}
    \/ \E i \in Settled(responses) :
          /\ \A j \in Settled(responses) : i <= j
          /\ \/ responses[i] \in {"http_error", "api_error", "empty"}
             \/ text.form = "garbage"

\* C22: every extraction makes at most GEMINI_MAX_RETRIES attempts and ends
\* with a payload, which is the keyword parser's whenever the oracle call
\* ended in failure.
C22_ExtractionYieldsPayload ==
    [][last'.op = "extract" =>
          /\ last'.target <= GEMINI_MAX_RETRIES
          /\ ~last'.raised
          /\ OracleFailed(last'.view[1], last'.view[2]) =>
                last'.payload = _keyword_intent(last'.view[3])]_vars

(***************************************************************************)
(* The risk classifier on its own, on every intent, on registry and other  *)
(* entities, on impact counts around the threshold and on field lists      *)
(* with and without a compensation field; then one write of the pipeline   *)
(* and its rollback, which store the classified risk.                      *)
(***************************************************************************)
RiskCall ==
    \E intent \in ALLOWED_INTENTS :
      \E entity \in {"student", "course", "user", "salary_record"} :
        \E impact_count \in {0, 1, RISK_HIGH_IMPACT_COUNT, RISK_HIGH_IMPACT_COUNT + 1} :
          \E fields \in {{}, {"credits"}, {"net_salary"}} :
            /\ last.op = "none"
            /\ UNCHANGED <<db, uuid, hist, open>>
            /\ last' = [op |-> "classify", user |-> Admin, target |-> impact_count,
                        raised |-> FALSE,
                        payload |-> [NoPayload EXCEPT !.intent = intent,
                                                      !.entity = entity,
                                                      !.values = [f \in fields |-> None]],
                        result |-> [Result("classified") EXCEPT
                                       !.risk_level = _classify_risk(intent, entity,
                                                                     impact_count, fields)],
                        view |-> <<>>, query |-> NoQuery]

RiskExecute == \E o \in WriteAnswers : uuid = 1 /\ Execute(Admin, o, NoMsg, "nlp")

RiskRollback == uuid = 2 /\ Rollback(Admin, 1)

NextRisk == RiskCall \/ RiskExecute \/ RiskRollback

SpecRisk == Init /\ [][NextRisk]_vars

\* the compensation fields of salary_record
Compensation == {"gross_salary", "deductions", "net_salary"}

\* the decision table of the risk classifier
RiskTable(intent, entity, count) ==
    CASE intent \in {"READ", "ANALYZE"} -> "LOW"
      [] intent = "DELETE" -> "HIGH"
      [] intent \in {"CREATE", "UPDATE"} /\ entity = "user" -> "HIGH"
      [] intent \in {"CREATE", "UPDATE"} /\ entity # "user" ->
            IF count > RISK_HIGH_IMPACT_COUNT THEN "HIGH" ELSE "MEDIUM"

\* the audit events of a plan
PlanEvents(audit, q) == {i \in 1..Len(audit) : audit[i].plan_id = q}

\* C23: the classifier equals the decision table on every intent, entity
\* and impact count when no compensation field is touched (51 is HIGH and 50
\* is MEDIUM for CREATE and UPDATE), and the risk of a Plan, of its result
\* and of its audit events is the classifier's value for the request.
C23_RiskTable ==
    [][/\ (last'.op = "classify" /\ DOMAIN last'.payload.values \cap Compensation = {}) =>
             /\ last'.result.risk_level =
                   RiskTable(last'.payload.intent, last'.payload.entity, last'.target)
             /\ (/\ last'.payload.intent \in {"CREATE", "UPDATE"}
                 /\ last'.payload.entity # "user") =>
                    /\ last'.target = 51 => last'.result.risk_level = "HIGH"
                    /\ last'.target = 50 => last'.result.risk_level = "MEDIUM"
       /\ (last'.op = "execute" /\ last'.result.status \in {"executed", "failed"}) =>
             /\ last'.result.risk_level =
                   RiskTable(last'.payload.intent, last'.payload.entity,
                             Cardinality(DOMAIN Matched(db, last'.payload)))
             /\ last'.result.plan_id \in DOMAIN db'.plans =>
                   db'.plans[last'.result.plan_id].risk_level = last'.result.risk_level
             /\ \A i \in PlanEvents(db'.audit, last'.result.plan_id) :
                   db'.audit[i].risk_level = last'.result.risk_level
       /\ (last'.op = "rollback" /\ last'.result.status = "rolled_back") =>
             \A i \in PlanEvents(db'.audit, last'.result.plan_id) :
                db'.audit[i].risk_level = db.plans[last'.result.plan_id].risk_level]_vars

\* a CREATE with an impact one above the threshold was classified HIGH
C23_Witness ==
    /\ last.op = "classify" /\ last.payload.intent = "CREATE"
    /\ last.payload.entity = "course" /\ last.target = RISK_HIGH_IMPACT_COUNT + 1
    /\ DOMAIN last.payload.values = {}
    /\ last.result.risk_level = "HIGH"

\* C24: every CREATE or UPDATE whose affected fields include a compensation
\* field is classified HIGH, whatever the impact count.
C24_SensitiveFieldHigh ==
    [][(/\ last'.op = "classify"
        /\ last'.payload.intent \in {"CREATE", "UPDATE"}
        /\ DOMAIN last'.payload.values \cap Compensation # {}) =>
          last'.result.risk_level = "HIGH"]_vars

\* the request of the step passed the confidence, permission and validation checks
ChecksPass ==
    /\ GatePasses
    /\ \/ last'.payload.intent \notin {"CREATE", "UPDATE"}
       \/ _validate_field_values(last'.payload.values).errors = {}

\* C25: every request that passes the confidence, permission and validation
\* checks gets a Plan and an Execution and has its operation attempted in
\* the same call, ending executed or failed, whatever its risk.
C25_RiskNeverGates ==
    [][ChecksPass =>
          /\ last'.result.status \in {"executed", "failed"}
          /\ last'.result.plan_id # 0 /\ last'.result.execution_id # 0
          /\ last'.result.risk_level \in {"LOW", "MEDIUM", "HIGH"}]_vars

\* the event satisfies the filters the caller requested
Requested(ev, q) ==
    /\ q.module # "" => ev.module = q.module
    /\ q.operation_type # "" => ev.operation_type = q.operation_type
    /\ q.risk_level # "" => ev.risk_level = q.risk_level
    /\ q.actor_user_id # 0 => ev.user_id = q.actor_user_id

\* C26: AuditHistory returns to a caller that is no admin only events whose
\* user_id is the caller's own id, whatever filters are requested; to an
\* admin it returns exactly the events that satisfy the requested filters.
C26_HistoryOwnEvents ==
    [][last'.op = "history" =>
          /\ last'.user.role # "admin" =>
                \A i \in 1..Len(last'.view) : last'.view[i].user_id = last'.user.id
          /\ last'.user.role = "admin" =>
                /\ {last'.view[i] : i \in 1..Len(last'.view)} =
                      {db.audit[j] : j \in {k \in 1..Len(db.audit) :
                                               Requested(db.audit[k], last'.query)}}
                /\ Len(last'.view) =
                      Cardinality({k \in 1..Len(db.audit) :
                                      Requested(db.audit[k], last'.query)})]_vars

\* a faculty member asked for the events of the admin, which exist, and got none
C26_Witness ==
    /\ last.op = "history" /\ last.user.role = "faculty"
    /\ last.query.actor_user_id = 1
    /\ \E j \in 1..Len(db.audit) : db.audit[j].user_id = 1
    /\ last.view = <<>>

\* a row satisfies one filter: credits__gt is "credits greater than", a bare
\* column name is equality, and a field the entity does not have restricts
\* nothing
Satisfies(row, key, value) ==
    CASE key = "credits__gt" -> row.credits.v > value.v
      [] key \in DOMAIN row -> row[key] = value
      [] OTHER -> TRUE

\* the ids of the rows in the before_state of a result
StateIds(result) ==
    {result.before_state[i].id.v : i \in 1..Len(result.before_state)}

\* the step executes a READ, UPDATE or DELETE
FilteredStep ==
    /\ last'.op = "execute" /\ last'.result.status = "executed"
    /\ last'.payload.intent \in {"READ", "UPDATE", "DELETE"}

\* the filters of the step are those of the preceding READ and more
AddsFilters ==
    /\ last.op = "execute" /\ last.result.status = "executed"
    /\ last.payload.intent = "READ"
    /\ last.payload.entity = last'.payload.entity
    /\ DOMAIN last.payload.filters \subseteq DOMAIN last'.payload.filters
    /\ \A k \in DOMAIN last.payload.filters :
          last'.payload.filters[k] = last.payload.filters[k]

\* C27: the rows an operation matches are exactly the rows satisfying every
\* filter of the payload; a filter on a field the entity does not have
\* restricts nothing, and a request that adds filters to those of the READ
\* before it matches a subset of the rows that READ matched.
C27_FiltersConjunction ==
    [][FilteredStep =>
          /\ StateIds(last'.result) =
                {id \in DOMAIN db.rows[last'.payload.entity] :
                    \A k \in DOMAIN last'.payload.filters :
                        Satisfies(db.rows[last'.payload.entity][id], k,
                                  last'.payload.filters[k])}
          /\ AddsFilters => StateIds(last'.result) \subseteq StateIds(last.result)]_vars

\* a READ with two filters matched one of the two courses
C27_Witness ==
    /\ last.op = "execute" /\ last.result.status = "executed"
    /\ last.payload.intent = "READ" /\ last.payload.entity = "course"
    /\ DOMAIN last.payload.filters = {"department_id", "credits__gt"}
    /\ StateIds(last.result) = {1}
    /\ DOMAIN db.rows["course"] = {1, 2}

\* the step executes a READ or an ANALYZE
ReadStep ==
    /\ last'.op = "execute" /\ last'.result.status = "executed"
    /\ last'.payload.intent \in {"READ", "ANALYZE"}

\* the call before the step executed the same READ or ANALYZE
RepeatsRead ==
    /\ last.op = "execute" /\ last.result.status = "executed"
    /\ last.payload.intent = last'.payload.intent
    /\ last.payload.entity = last'.payload.entity
    /\ last.payload.filters = last'.payload.filters

\* C28: an executed READ or ANALYZE changes no row and returns before_state
\* equal to after_state, and the same request executed again with no call in
\* between returns the same affected_count.
C28_ReadRepeatable ==
    [][ReadStep =>
          /\ db'.rows = db.rows
          /\ last'.result.before_state = last'.result.after_state
          /\ RepeatsRead =>
                last'.result.affected_count = last.result.affected_count]_vars

\* the same READ of the courses of department 1 was executed twice
C28_Witness ==
    /\ last.op = "execute" /\ last.result.status = "executed"
    /\ last.payload.intent = "READ" /\ last.payload.entity = "course"
    /\ DOMAIN last.payload.filters = {"department_id"}
    /\ last.result.affected_count = 1
    /\ \E i, j \in DOMAIN db.audit :
          /\ i < j
          /\ \A k \in {i, j} :
                /\ db.audit[k].operation_type = "READ"
                /\ db.audit[k].event_type = "executed"
                /\ Len(db.audit[k].before_state) = 1

\* the statuses of a plan and of its execution agree
StatusesAgree(plan_status, execution_status) ==
    IF plan_status = "executing" \/ execution_status = "pending"
    THEN plan_status = "executing" /\ execution_status = "pending"
    ELSE plan_status = execution_status

\* C29: every execution references one existing plan, every plan is referenced
\* by exactly one execution, and the statuses of the two agree.
C29_PlanExecutionPairs ==
    /\ \A e \in DOMAIN db.execs : db.execs[e].plan_id \in DOMAIN db.plans
    /\ \A p \in DOMAIN db.plans :
          /\ Cardinality({e \in DOMAIN db.execs : db.execs[e].plan_id = p}) = 1
          /\ \A e \in DOMAIN db.execs :
                db.execs[e].plan_id = p =>
                    StatusesAgree(db.plans[p].status, db.execs[e].status)

\* one pair was rolled back and another pair is executed
C29_Witness ==
    \E p, q \in DOMAIN db.plans :
        /\ db.plans[p].status = "rolled_back"
        /\ db.plans[q].status = "executed"
        /\ \E e, f \in DOMAIN db.execs :
              /\ db.execs[e].plan_id = p /\ db.execs[e].status = "rolled_back"
              /\ db.execs[f].plan_id = q /\ db.execs[f].status = "executed"

\* the step is a Rollback, by the admin, of an executed UPDATE
RollsBackUpdate ==
    /\ last'.op = "rollback" /\ last'.user.role = "admin"
    /\ last'.target \in DOMAIN db.execs
    /\ db.execs[last'.target].status = "executed"
    /\ db.plans[db.execs[last'.target].plan_id].intent_type = "UPDATE"

\* C30: a Rollback of an executed UPDATE sets, on every row of before_state
\* that still exists, every snapshotted field but id to the snapshot value,
\* whatever a later execution did to the row; rows that no longer exist are
\* skipped, no other row changes, and the execution becomes rolled_back.
C30_SnapshotDrivesRollback ==
    [][RollsBackUpdate =>
          LET execution == db.execs[last'.target]
              entity == db.plans[execution.plan_id].entity
              ids == Surviving(db.rows, entity, execution.before_state)
          IN /\ last'.result.status = "rolled_back"
             /\ db'.execs[last'.target].status = "rolled_back"
             /\ DOMAIN db'.rows[entity] = DOMAIN db.rows[entity]
             /\ \A id \in DOMAIN db.rows[entity] :
                   IF id \in ids
                   THEN _model_to_dict(entity, db'.rows[entity][id]) =
                            SnapOf(execution.before_state, id)
                   ELSE db'.rows[entity][id] = db.rows[entity][id]]_vars

(***************************************************************************)
(* Deletes of several rows and of a row that other rows reference, a       *)
(* CREATE that takes the code of a deleted course, and the rollbacks of    *)
(* these executions.                                                       *)
(***************************************************************************)
MaxUndoCalls == 4

UndoExecute ==
    \E o \in {Answer("DELETE", "attendance", [id |-> I(1)], EmptyDict, 95),
              Answer("DELETE", "course", EmptyDict, EmptyDict, 95),
              Answer("DELETE", "faculty", [id |-> I(1)], EmptyDict, 95),
              Answer("UPDATE", "course", EmptyDict, [credits |-> I(4)], 95),
              Answer("UPDATE", "course", [id |-> I(2)], [instructor_id |-> I(1)], 95),
              Answer("CREATE", "course", EmptyDict, NewCourse(2), 95)} :
        /\ uuid <= MaxUndoCalls
        /\ Executes(Admin, _extract_intent(o, NoMsg),
                    create_and_execute(db, uuid, Admin, o, NoMsg, "nlp"))

UndoRollback ==
    \E e \in 1..MaxUndoCalls :
        /\ uuid <= MaxUndoCalls
        /\ RollsBack(Admin, e, rollback_execution(db, uuid, Admin, e))

NextUndo == UndoExecute \/ UndoRollback

SpecUndo == Init /\ [][NextUndo]_vars

\* C31: a Rollback that ends in rollback_failed leaves the domain rows, the
\* execution (still executed), the plan and the audit log as they were before
\* the call.
C31_FailedRollbackInvisible ==
    [][(last'.op = "rollback" /\ last'.result.status = "rollback_failed") =>
          /\ db'.rows = db.rows
          /\ db'.execs = db.execs
          /\ db'.plans = db.plans
          /\ db'.audit = db.audit
          /\ db.execs[last'.target].status = "executed"]_vars

\* the Rollback of a DELETE of two courses failed at the second re-insert,
\* after the first one had been flushed
C31_Witness ==
    /\ last.op = "rollback" /\ last.result.status = "rollback_failed"
    /\ db.plans[last.target].intent_type = "DELETE"
    /\ Len(db.execs[last.target].before_state) = 2
    /\ ~Reversal(db, db.plans[last.target], db.execs[last.target]).ok
    /\ Reversal(db, db.plans[last.target], db.execs[last.target]).rows # db.rows

\* C32: an oracle attempt that is not the last one and meets a rate limit, a
\* network error or an HTTP error status, as all attempts before it did, is
\* followed by another attempt.
C32_TransientRetried ==
    [][last'.op = "extract" =>
          \A i \in 1..(GEMINI_MAX_RETRIES - 1) :
              (\A j \in 1..i :
                  last'.view[1][j] \in {"rate_limited", "network", "http_error"})
                  => last'.target > i]_vars

\* the step is an executed CREATE
CreateStep ==
    /\ last'.op = "execute" /\ last'.result.status = "executed"
    /\ last'.payload.intent = "CREATE"

\* the rows of the step's entity that the step added
NewIds ==
    DOMAIN db'.rows[last'.payload.entity] \ DOMAIN db.rows[last'.payload.entity]

\* C33: an executed CREATE adds exactly one row, which carries the values,
\* changes no other row, and its execution and result have before_state = [],
\* after_state = [the new row] and affected_count = 1.
C33_CreateOneRow ==
    [][CreateStep =>
          /\ Cardinality(NewIds) = 1
          /\ \A id \in NewIds :
                /\ \A k \in DOMAIN last'.payload.values :
                      _model_to_dict(last'.payload.entity,
                                     db'.rows[last'.payload.entity][id])[k]
                          = last'.payload.values[k]
                /\ last'.result.after_state =
                      <<_model_to_dict(last'.payload.entity,
                                       db'.rows[last'.payload.entity][id])>>
          /\ \A e \in ENTITY_REGISTRY : \A id \in DOMAIN db.rows[e] :
                id \in DOMAIN db'.rows[e] /\ db'.rows[e][id] = db.rows[e][id]
          /\ last'.result.affected_count = 1
          /\ last'.result.before_state = <<>>
          /\ db'.execs[last'.result.execution_id].before_state = <<>>
          /\ db'.execs[last'.result.execution_id].after_state =
                last'.result.after_state]_vars

\* the step is an executed UPDATE or DELETE
WriteStep ==
    /\ last'.op = "execute" /\ last'.result.status = "executed"
    /\ last'.payload.intent \in {"UPDATE", "DELETE"}

\* C34: an executed UPDATE sets the given values on the rows in before_state
\* and leaves their other fields alone, an executed DELETE removes exactly
\* those rows; every other row of the entity and every row of every other
\* entity is unchanged; before_state holds the prior values of the rows and
\* after_state the new ones (empty for DELETE).
C34_WriteFrame ==
    [][WriteStep =>
          LET entity == last'.payload.entity
              ids == StateIds(last'.result)
              values == db'.plans[last'.result.plan_id].values
          IN /\ ids \subseteq DOMAIN db.rows[entity]
             /\ last'.result.before_state =
                   Snapshots(db.rows, entity, SortedIds(ids))
             /\ \A e \in ENTITY_REGISTRY \ {entity} : db'.rows[e] = db.rows[e]
             /\ \A id \in DOMAIN db.rows[entity] \ ids :
                   id \in DOMAIN db'.rows[entity]
                   /\ db'.rows[entity][id] = db.rows[entity][id]
             /\ IF last'.payload.intent = "DELETE"
                THEN /\ DOMAIN db'.rows[entity] = DOMAIN db.rows[entity] \ ids
                     /\ last'.result.after_state = <<>>
                ELSE /\ DOMAIN db'.rows[entity] = DOMAIN db.rows[entity]
                     /\ \A id \in ids : \A c \in DOMAIN Columns(entity) :
                           db'.rows[entity][id][c] =
                               IF c \in DOMAIN values THEN values[c]
                               ELSE db.rows[entity][id][c]
                     /\ last'.result.after_state =
                           Snapshots(db'.rows, entity, SortedIds(ids))]_vars

\* C35: an executed CREATE or UPDATE assigns no field that the registry does
\* not list as writable for the entity: a column named in the values and
\* missing from the list keeps its value on every row (UPDATE) or gets its
\* default on the new row (CREATE).
C35_OnlyRegistryFields ==
    [][(/\ last'.op = "execute" /\ last'.result.status = "executed"
        /\ last'.payload.intent \in {"CREATE", "UPDATE"}) =>
          LET entity == last'.payload.entity
          IN \A k \in (DOMAIN last'.payload.values \cap DOMAIN Columns(entity))
                         \ RegistryFields(entity) :
                \A id \in DOMAIN db'.rows[entity] :
                    db'.rows[entity][id][k] =
                        IF id \in DOMAIN db.rows[entity]
                        THEN db.rows[entity][id][k]
                        ELSE IF k = "id" THEN I(id)
                        ELSE ColumnDefault(entity, k)]_vars

(***************************************************************************)
(* Requests answered by the keyword parser alone: every combination of a   *)
(* verb, an entity, a semester filter and a cgpa value.                    *)
(***************************************************************************)
FallbackMessages ==
    {Msg(tokens, {ent}, sem, cgpaTo) :
        tokens \in {{}, {"create"}, {"update"}, {"delete"}},
        ent \in {"student", "course"}, sem \in {0, 3}, cgpaTo \in {0, 90}}

FallbackExecute ==
    \E m \in FallbackMessages :
        uuid <= MaxQueryCalls /\ Execute(Admin, OracleDown, m, "nlp")

SpecFallback == Init /\ [][FallbackExecute]_vars

\* the payload of the step is a write without scope or without values
Unscoped(payload) ==
    \/ payload.intent \in {"UPDATE", "DELETE"} /\ DOMAIN payload.filters = {}
    \/ payload.intent \in {"CREATE", "UPDATE"} /\ DOMAIN payload.values = {}

\* C36: a payload of the keyword parser that is an UPDATE or DELETE without
\* filters, or a CREATE or UPDATE without values, has a confidence below the
\* threshold; the request ends in clarification_needed, with no plan, no
\* execution and no row changed.
C36_FallbackWritesClarified ==
    [][(/\ last'.op = "execute"
        /\ \E m \in FallbackMessages : last'.payload = _keyword_intent(m)
        /\ Unscoped(last'.payload)) =>
          /\ last'.payload.confidence < OPS_CONFIDENCE_THRESHOLD
          /\ last'.result.status = "clarification_needed"
          /\ db'.rows = db.rows
          /\ db'.plans = db.plans
          /\ db'.execs = db.execs]_vars

\* "update students in semester 3", with a filter and without values, was
\* held back after another fallback request had been executed
C36_Witness ==
    /\ last.op = "execute" /\ last.result.status = "clarification_needed"
    /\ last.payload.intent = "UPDATE"
    /\ DOMAIN last.payload.filters = {"semester"}
    /\ DOMAIN last.payload.values = {}
    /\ DOMAIN db.execs # {}

(***************************************************************************)
(* Reads of a table that holds as many rows as READ_ROW_LIMIT, or one      *)
(* more.                                                                   *)
(***************************************************************************)
InitCap ==
    /\ \E n \in {READ_ROW_LIMIT, READ_ROW_LIMIT + 1} :
          db = [InitStore EXCEPT
                   !.rows["attendance"] =
                       [id \in 1..n |-> [InitRows["attendance"][1] EXCEPT !.id = I(id)]],
                   !.seq["attendance"] = n + 1]
    /\ uuid = 1
    /\ hist = EmptyDict
    /\ open = {}
    /\ last = [op |-> "none", user |-> [id |-> 0, role |-> ""], target |-> 0,
               raised |-> FALSE, payload |-> NoPayload, result |-> NoResult,
               view |-> <<>>, query |-> NoQuery]

CapExecute ==
    \E o \in {Answer("READ", "attendance", EmptyDict, EmptyDict, 95),
              Answer("READ", "attendance", [student_id |-> I(1)], EmptyDict, 95),
              Answer("READ", "attendance", [id |-> I(1)], EmptyDict, 95),
              Answer("READ", "course", EmptyDict, EmptyDict, 95),
              Answer("ANALYZE", "attendance", EmptyDict, EmptyDict, 95),
              Answer("UPDATE", "attendance", [id |-> I(1)], [is_present |-> B(0)], 95),
              Answer("DELETE", "attendance", [id |-> I(1)], EmptyDict, 95)} :
        uuid <= MaxQueryCalls /\ Execute(Admin, o, NoMsg, "nlp")

SpecCap == InitCap /\ [][CapExecute]_vars

\* C37: an executed READ returns at most READ_ROW_LIMIT rows in before_state
\* and after_state, and its affected_count is the number of rows that match
\* the filters, also when that number is above the limit.
C37_ReadCapKeepsTotal ==
    [][(/\ last'.op = "execute" /\ last'.result.status = "executed"
        /\ last'.payload.intent = "READ") =>
          /\ Len(last'.result.before_state) <= READ_ROW_LIMIT
          /\ Len(last'.result.after_state) <= READ_ROW_LIMIT
          /\ last'.result.affected_count =
                Cardinality(_apply_filters(db.rows, last'.payload.entity,
                                           last'.payload.filters))]_vars

\* C38: every registry key resolves to itself in lower, upper and title case
\* and with a plural s, and a name that matches no entity resolves to student.
C38_AliasResolution ==
    [][last'.op = "alias" =>
          last'.payload.entity =
              IF last'.view[1] \in REGISTRY_KEYS THEN last'.view[1]
              ELSE "student"]_vars

(***************************************************************************)
(* Requests in flight.  The handlers are coroutines, each with its own     *)
(* session: a request is suspended at an await and another one runs.  A    *)
(* request begins by reading (the execution and its plan for a rollback;   *)
(* the matched rows, with plan and execution flushed in its own session,   *)
(* for a write), and ends by writing and committing on the store as it is  *)
(* then.  Nothing it read is read again and no statement carries a version *)
(* test.  The ids of a call are drawn when it ends.                        *)
(***************************************************************************)
MaxRaceCalls == 3

MaxOpen == 2

\* a faulty write that compares the rows with the ones it read and gives up
\* when one of them was changed or removed in between
RaceOpVersioned(cur, seen, intent, entity, matched, values) ==
    LET ids == {matched[i] : i \in 1..Len(matched)}
        loaded == [id \in ids |-> SetAttrs(entity, seen.rows[entity][id], values)]
        snap == Snapshots(seen.rows, entity, matched)
        here == SortedIds(ids \cap DOMAIN cur.rows[entity])
        fl == IF intent = "UPDATE"
              THEN FlushUpdates(cur.rows, entity, here,
                      [id \in DOMAIN cur.rows[entity] |->
                          IF id \in ids
                          THEN [c \in DOMAIN cur.rows[entity][id] |->
                                   IF loaded[id][c] # seen.rows[entity][id][c]
                                   THEN loaded[id][c]
                                   ELSE cur.rows[entity][id][c]]
                          ELSE cur.rows[entity][id]])
              ELSE FlushDeletes(cur.rows, entity, here)
    IN IF \E id \in ids : \/ id \notin DOMAIN cur.rows[entity]
                          \/ cur.rows[entity][id] # seen.rows[entity][id]
       THEN OpFailed(cur, snap, Len(matched))
       ELSE [ok |-> fl.ok, rows |-> fl.rows, seq |-> cur.seq, before |-> snap,
             after |-> IF fl.ok /\ intent = "UPDATE"
                       THEN [i \in 1..Len(matched) |->
                                _model_to_dict(entity, loaded[matched[i]])]
                       ELSE <<>>,
             count |-> Len(matched)]

\* the write of an UPDATE or DELETE whose rows were read from the store seen:
\* before_state is the rows as read; the flush sends, for every row read, an
\* UPDATE of the columns setattr changed, or a DELETE, to the store cur.  An
\* UPDATE that finds its row gone raises (StaleDataError), a DELETE does not.
RaceOp(cur, seen, intent, entity, matched, values) ==
    LET ids == {matched[i] : i \in 1..Len(matched)}
        loaded == [id \in ids |-> SetAttrs(entity, seen.rows[entity][id], values)]
        snap == Snapshots(seen.rows, entity, matched)
        here == SortedIds(ids \cap DOMAIN cur.rows[entity])
        fl == IF intent = "UPDATE"
              THEN FlushUpdates(cur.rows, entity, here,
                      [id \in DOMAIN cur.rows[entity] |->
                          IF id \in ids
                          THEN [c \in DOMAIN cur.rows[entity][id] |->
                                   IF loaded[id][c] # seen.rows[entity][id][c]
                                   THEN loaded[id][c]
                                   ELSE cur.rows[entity][id][c]]
                          ELSE cur.rows[entity][id]])
              ELSE FlushDeletes(cur.rows, entity, here)
    IN IF intent = "UPDATE" /\
          \/ (matched # <<>> /\ \E k \in DOMAIN values : k \in Relationships(entity))
          \/ \E id \in ids : /\ id \notin DOMAIN cur.rows[entity]
                             /\ loaded[id] # seen.rows[entity][id]
       THEN OpFailed(cur, snap, Len(matched))
       ELSE [ok |-> fl.ok, rows |-> fl.rows, seq |-> cur.seq, before |-> snap,
             after |-> IF fl.ok /\ intent = "UPDATE"
                       THEN [i \in 1..Len(matched) |->
                                _model_to_dict(entity, loaded[matched[i]])]
                       ELSE <<>>,
             count |-> Len(matched)]

\* a request begins: an UPDATE or DELETE by the admin reads its rows, or a
\* rollback reads an execution on record and its plan
RaceBegin ==
    \E req \in {[op |-> "execute", target |-> 0, answer |-> o] :
                  o \in {Answer("UPDATE", "course", [id |-> I(1)], [credits |-> I(5)], 95),
                         Answer("UPDATE", "course", EmptyDict, [credits |-> I(4)], 95),
                         Answer("UPDATE", "attendance", [id |-> I(1)], [is_present |-> B(0)], 95),
                         Answer("DELETE", "attendance", [id |-> I(1)], EmptyDict, 95)}}
               \cup {[op |-> "rollback", target |-> e, answer |-> OracleDown] :
                       e \in DOMAIN db.execs} :
        /\ Cardinality(open) < MaxOpen
        /\ uuid + Cardinality(open) <= MaxRaceCalls
        /\ open' = open \cup
              {[slot |-> 1 + Cardinality({r \in open :
                                /\ r.op = req.op /\ r.target = req.target
                                /\ r.answer = req.answer /\ r.seen = db}),
                op |-> req.op, target |-> req.target, answer |-> req.answer,
                seen |-> db]}
        /\ UNCHANGED <<db, uuid, hist, last>>

\* a write in flight ends: flush of the rows, statuses, audit event, commit
RaceExecuteEnd ==
    \E r \in {q \in open : q.op = "execute"} :
        LET o == create_and_execute(r.seen, uuid, Admin, r.answer, NoMsg, "nlp")
            plan == o.store.plans[uuid]
            out == Finish(db,
                          [db EXCEPT !.plans = @ @@ (uuid :> plan),
                                     !.execs = @ @@ (uuid :> o.store.execs[uuid])],
                          uuid, Admin, "nlp", plan.intent_type, plan.risk_level,
                          RaceOp(db, r.seen, plan.intent_type, plan.entity,
                                 SortedIds(_apply_filters(r.seen.rows, plan.entity,
                                                          plan.filters)),
                                 plan.values))
        IN /\ db' = out.store
           /\ uuid' = uuid + 1
           /\ hist' = IF out.result.status = "executed"
                      THEN hist @@ (uuid :>
                              [pre |-> [id \in _apply_filters(r.seen.rows, plan.entity,
                                                              plan.filters)
                                              \cap DOMAIN db.rows[plan.entity] |->
                                           db.rows[plan.entity][id]],
                               new |-> EmptyDict])
                      ELSE hist
           /\ open' = open \ {r}
           /\ last' = [op |-> "execute", user |-> Admin, target |-> 0,
                       raised |-> FALSE,
                       payload |-> _extract_intent(r.answer, NoMsg).payload,
                       result |-> out.result, view |-> <<r.seen.rows>>,
                       query |-> NoQuery]

\* a rollback in flight ends: the checks on the execution and the plan as it
\* read them, the reversal and the commit on the store as it is now
RaceRollbackEnd ==
    \E r \in {q \in open : q.op = "rollback"} :
        LET out == Checked(db, uuid, Admin, r.target, r.seen.execs[r.target],
                           r.seen.plans[r.seen.execs[r.target].plan_id])
        IN /\ db' = out.store
           /\ uuid' = uuid + 1
           /\ hist' = hist
           /\ open' = open \ {r}
           /\ last' = [op |-> "rollback", user |-> Admin, target |-> r.target,
                       raised |-> FALSE, payload |-> NoPayload,
                       result |-> out.result, view |-> <<>>, query |-> NoQuery]

SpecRace == Init /\ [][RaceBegin \/ RaceExecuteEnd \/ RaceRollbackEnd]_vars

\* C39: when two Rollbacks of one executed Execution are in flight together,
\* a Rollback that reports rolled_back found the Execution still executed in
\* the store, and the Execution has exactly one rollback audit event after it.
C39_ConcurrentRollbackOnce ==
    [][(/\ uuid' = uuid + 1 /\ last'.op = "rollback"
        /\ last'.result.status = "rolled_back") =>
          /\ db.execs[last'.target].status = "executed"
          /\ Cardinality(RollbackEvents(db'.audit, last'.target)) = 1]_vars

\* C40: no row-version check.  An UPDATE or DELETE that ends while the rows
\* it read are still in the store (or that is a DELETE) ends executed with
\* before_state the rows as it read them, whatever was written to these rows
\* in between.
C40_NoVersionCheck ==
    [][(/\ uuid' = uuid + 1 /\ last'.op = "execute" /\ last'.view # <<>>
        /\ \/ last'.payload.intent = "DELETE"
           \/ _apply_filters(last'.view[1], last'.payload.entity,
                             last'.payload.filters)
                 \subseteq DOMAIN db.rows[last'.payload.entity]) =>
          /\ last'.result.status = "executed"
          /\ last'.result.before_state =
                Snapshots(last'.view[1], last'.payload.entity,
                          SortedIds(_apply_filters(last'.view[1],
                                                   last'.payload.entity,
                                                   last'.payload.filters)))]_vars

\* two writes on the same row both ended executed, the before_state of one
\* is not the row its write replaced, and its rollback left the row different
\* from the one its write replaced
C40_Witness ==
    /\ open = {}
    /\ last.op = "rollback" /\ last.result.status = "rolled_back"
    /\ last.target \in DOMAIN hist
    /\ \E a \in DOMAIN db.execs \ {last.target} :
          /\ db.execs[a].status = "executed"
          /\ db.plans[a].entity = db.plans[last.target].entity
    /\ \E id \in DOMAIN hist[last.target].pre :
          /\ id \in DOMAIN db.rows[db.plans[last.target].entity]
          /\ db.rows[db.plans[last.target].entity][id] # hist[last.target].pre[id]
          /\ \E i \in 1..Len(db.execs[last.target].before_state) :
                /\ db.execs[last.target].before_state[i].id = I(id)
                /\ db.execs[last.target].before_state[i] #
                      _model_to_dict(db.plans[last.target].entity,
                                     hist[last.target].pre[id])
====
